---- MODULE Spec2Model ----
(***************************************************************************)
(* Overload resolution of torch_onnx: the ONNX registry (OnnxRegistry),    *)
(* the dispatcher (OnnxFunctionDispatcher) and the schema checker          *)
(* (_OnnxSchemaChecker) of src/src/torch_onnx/_dispatcher.py.              *)
(*                                                                         *)
(* Spec            registry construction, register_op and dispatch.        *)
(* SpecChecker     _OnnxSchemaChecker applied to one function and one call.*)
(* SpecConcurrent  dispatch calls of several threads on one registry,      *)
(*                 statement by statement.                                 *)
(* SpecTypes       _find_onnx_data_type applied to one value.              *)
(***************************************************************************)
EXTENDS Integers, Sequences, FiniteSets, TLC

VARIABLES
    registry,   \* OnnxRegistry._registry: OpName -> list of ONNXFunction
    made,       \* history: the registrations made so far, oldest first
    call,       \* the call site of the most recent dispatch (node, onnx_args, onnx_kwargs)
    outcome,    \* what that dispatch returned or raised
    diag,       \* the records that dispatch sent to the logger
    scan,       \* the candidates that dispatch ran the schema checker on, in scan order
    looked,     \* the most recent get_op_functions / is_registered_op call and its result
    chk,        \* one _OnnxSchemaChecker with the call it is applied to
    threads,    \* the dispatch calls in progress, one per thread, with their local variables
    checkers,   \* the _OnnxSchemaChecker objects those calls constructed: object -> match_score
    typed,      \* one call of _find_onnx_data_type: its argument and what it gave
    lookups     \* the names the dispatch call asked the registry for, in order

vars == <<registry, made, call, outcome, diag, scan, looked, chk, threads, checkers, typed,
          lookups>>

(***************************************************************************)
(* Bounds                                                                  *)
(***************************************************************************)
\* register_op calls made after construction
MaxCustom == 3
\* positional arguments of a call given to the schema checker
MaxArgs == 2
\* elements of a list or tuple given to _find_onnx_data_type
MaxItems == 2

(***************************************************************************)
(* Runtime values: what a positional or keyword argument can be.           *)
(*   k     kind: tensor, int, float, bool, str, none, list, tuple, object  *)
(*   d     dtype of a tensor-like value ("" when it has none)              *)
(*   v     text of a Python constant                                       *)
(*   meta  kind of node.meta["val"] of the fx node the value comes from    *)
(*   items elements of a list or tuple                                     *)
(***************************************************************************)
Value(k, d, v, meta, items) == [k |-> k, d |-> d, v |-> v, meta |-> meta, items |-> items]
Tensor(d) == Value("tensor", d, "", "Tensor", <<>>)
SymNode(m, d) == Value("tensor", d, "", m, <<>>)
NoDtypeTensor == Value("tensor", "", "", "", <<>>)
PyInt(v) == Value("int", "", v, "", <<>>)
PyFloat(v) == Value("float", "", v, "", <<>>)
PyBool(v) == Value("bool", "", v, "", <<>>)
PyStr(v) == Value("str", "", v, "", <<>>)
PyNone == Value("none", "", "", "", <<>>)
PyList(items) == Value("list", "", "", "", items)
PyTuple(items) == Value("tuple", "", "", "", items)
PyObject == Value("object", "", "", "", <<>>)

IsTensorLike(x) == x.k = "tensor"
IsPyConst(x) == x.k \in {"int", "float", "bool", "str"}
IsSequence(x) == x.k \in {"list", "tuple"}
ComplexDtypes == {"torch.complex32", "torch.complex64", "torch.complex128"}

(***************************************************************************)
(* Type compatibility table                                                *)
(***************************************************************************)
TORCH_DTYPE_TO_COMPATIBLE_ONNX_TYPE_STRINGS ==
    [ d \in { "torch.bfloat16", "torch.bool", "torch.float64", "torch.float32",
              "torch.float16", "torch.float8_e4m3fn", "torch.float8_e4m3fnuz",
              "torch.float8_e5m2", "torch.float8_e5m2fnuz", "torch.int16",
              "torch.int32", "torch.int64", "torch.int8", "torch.uint8",
              "str", "int", "float", "bool", "complex",
              "torch.complex32", "torch.complex64", "torch.complex128" } |->
        CASE d = "torch.bfloat16"        -> {"tensor(bfloat16)"}
          [] d = "torch.bool"            -> {"tensor(bool)"}
          [] d = "torch.float64"         -> {"tensor(double)"}
          [] d = "torch.float32"         -> {"tensor(float)"}
          [] d = "torch.float16"         -> {"tensor(float16)"}
          [] d = "torch.float8_e4m3fn"   -> {"tensor(float8_e4m3fn)"}
          [] d = "torch.float8_e4m3fnuz" -> {"tensor(float8_e4m3fnuz)"}
          [] d = "torch.float8_e5m2"     -> {"tensor(float8_e5m2)"}
          [] d = "torch.float8_e5m2fnuz" -> {"tensor(float8_e5m2fnuz)"}
          [] d = "torch.int16"           -> {"tensor(int16)"}
          [] d = "torch.int32"           -> {"tensor(int32)"}
          [] d = "torch.int64"           -> {"tensor(int64)"}
          [] d = "torch.int8"            -> {"tensor(int8)"}
          [] d = "torch.uint8"           -> {"tensor(uint8)"}
          [] d = "str"                   -> {"tensor(string)"}
          [] d = "int"                   -> {"tensor(int16)", "tensor(int32)", "tensor(int64)"}
          [] d = "float"                 -> {"tensor(float16)", "tensor(float)", "tensor(double)"}
          [] d = "bool"                  -> {"tensor(int32)", "tensor(int64)", "tensor(bool)"}
          [] d = "complex"               -> {"tensor(float)", "tensor(double)"}
          [] d = "torch.complex32"       -> {"tensor(float16)"}
          [] d = "torch.complex64"       -> {"tensor(float)"}
          [] d = "torch.complex128"      -> {"tensor(double)"} ]

OptionalOf(t) == "optional(" \o t \o ")"
SeqOf(t) == "seq(" \o t \o ")"

OPTIONAL_ONNX_DTYPE_STR ==
    { OptionalOf(value) :
        value \in UNION { TORCH_DTYPE_TO_COMPATIBLE_ONNX_TYPE_STRINGS[d] :
                            d \in DOMAIN TORCH_DTYPE_TO_COMPATIBLE_ONNX_TYPE_STRINGS } }

\* mutant: the optional strings built from the keys of the table, not from its values
is_optional_of_dtype_key(onnx_type_str) ==
    onnx_type_str \in { OptionalOf(d) : d \in DOMAIN TORCH_DTYPE_TO_COMPATIBLE_ONNX_TYPE_STRINGS }

is_optional_onnx_dtype_str(onnx_type_str) == onnx_type_str \in OPTIONAL_ONNX_DTYPE_STR

from_torch_dtype_to_onnx_dtype_str(dtype) == TORCH_DTYPE_TO_COMPATIBLE_ONNX_TYPE_STRINGS[dtype]

\* AttrType of a Python type; "NONE" is the None that dict.get returns.
from_python_type_to_onnx_attribute_type(dtype, is_sequence) ==
    IF is_sequence
    THEN CASE dtype = "float" -> "FLOATS"
           [] dtype = "int"   -> "INTS"
           [] dtype = "str"   -> "STRINGS"
           [] dtype = "bool"  -> "INTS"
           [] OTHER           -> "NONE"
    ELSE CASE dtype = "float" -> "FLOAT"
           [] dtype = "int"   -> "INT"
           [] dtype = "str"   -> "STRING"
           [] dtype = "bool"  -> "INT"
           [] OTHER           -> "NONE"

\* The set of type strings, or the marker Unknown where the code raises RuntimeError.
Unknown == {"<unknown input type>"}

\* A variant that wraps in seq() by the first element only.
RECURSIVE find_onnx_data_type_by_first_item(_)
find_onnx_data_type_by_first_item(torch_input) ==
    IF IsTensorLike(torch_input) /\ torch_input.d # ""
    THEN from_torch_dtype_to_onnx_dtype_str(torch_input.d)
    ELSE IF IsPyConst(torch_input)
    THEN from_torch_dtype_to_onnx_dtype_str(torch_input.k)
    ELSE IF IsSequence(torch_input) /\ Len(torch_input.items) > 0
    THEN LET items == torch_input.items
             nn == { i \in 1..Len(items) : items[i].k # "none" }
             the_first_non_none_item ==
                 IF nn = {} THEN PyNone
                 ELSE items[CHOOSE i \in nn : \A j \in nn : i <= j]
             set_dtype == find_onnx_data_type_by_first_item(the_first_non_none_item)
         IN  IF set_dtype = Unknown THEN Unknown
             ELSE IF IsTensorLike(the_first_non_none_item)
             THEN { SeqOf(dtype) : dtype \in set_dtype }
             ELSE set_dtype
    ELSE IF \/ torch_input.k = "none"
            \/ (IsTensorLike(torch_input) /\ torch_input.d = "")
            \/ (IsSequence(torch_input) /\ Len(torch_input.items) = 0)
    THEN {}
    ELSE Unknown

RECURSIVE find_onnx_data_type(_)
find_onnx_data_type(torch_input) ==
    IF IsTensorLike(torch_input) /\ torch_input.d # ""
    THEN from_torch_dtype_to_onnx_dtype_str(torch_input.d)
    ELSE IF IsPyConst(torch_input)
    THEN from_torch_dtype_to_onnx_dtype_str(torch_input.k)
    ELSE IF IsSequence(torch_input) /\ Len(torch_input.items) > 0
    THEN LET items == torch_input.items
             nn == { i \in 1..Len(items) : items[i].k # "none" }
             the_first_non_none_item ==
                 IF nn = {} THEN PyNone
                 ELSE items[CHOOSE i \in nn : \A j \in nn : i <= j]
             set_dtype == find_onnx_data_type(the_first_non_none_item)
         IN  IF set_dtype = Unknown THEN Unknown
             ELSE IF \E i \in 1..Len(items) : IsTensorLike(items[i])
             THEN { SeqOf(dtype) : dtype \in set_dtype }
             ELSE set_dtype
    ELSE IF \/ torch_input.k = "none"
            \/ (IsTensorLike(torch_input) /\ torch_input.d = "")
            \/ (IsSequence(torch_input) /\ Len(torch_input.items) = 0)
    THEN {}
    ELSE Unknown

\* Check if the node has complex dtype recursively.
RECURSIVE is_arg_with_complex_dtype(_)
is_arg_with_complex_dtype(arg) ==
    IF IsTensorLike(arg) /\ arg.meta = "Tensor" /\ arg.d \in ComplexDtypes
    THEN TRUE
    ELSE IF arg.k = "list" /\ Len(arg.items) > 0
    THEN is_arg_with_complex_dtype(arg.items[1])
    ELSE FALSE

(***************************************************************************)
(* Signature model: what an onnxscript function exposes to the checker.    *)
(* param_schemas() is the sequence params; op_schema.inputs is the         *)
(* subsequence of inputs; op_schema.attributes the attribute parameters by *)
(* name; op_schema.type_constraints maps type_str to AllowedTypes.         *)
(***************************************************************************)
AllowedTypes ==
    [ type_str \in {"TFloat", "TInt", "TOptFloat", "TSeqFloat", ""} |->
        CASE type_str = "TFloat"    -> {"tensor(float)"}
          [] type_str = "TInt"      -> {"tensor(int64)"}
          [] type_str = "TOptFloat" -> {"tensor(float)", OptionalOf("tensor(float)")}
          [] type_str = "TSeqFloat" -> {SeqOf("tensor(float)")}
          [] OTHER                  -> {} ]

Param(name, is_input, is_variadic_input, required, type_str, attr_type, has_default, default) ==
    [name |-> name, is_input |-> is_input, is_variadic_input |-> is_variadic_input,
     required |-> required, type_str |-> type_str, attr_type |-> attr_type,
     has_default |-> has_default, default |-> default]
Input(name, type_str) == Param(name, TRUE, FALSE, TRUE, type_str, "", FALSE, PyNone)
OptionalInput(name, type_str) == Param(name, TRUE, FALSE, FALSE, type_str, "", FALSE, PyNone)
VariadicInput(name, type_str) == Param(name, TRUE, TRUE, TRUE, type_str, "", FALSE, PyNone)
Attribute(name, attr_type) == Param(name, FALSE, FALSE, TRUE, "", attr_type, FALSE, PyNone)
AttributeWithDefault(name, attr_type, default) ==
    Param(name, FALSE, FALSE, FALSE, "", attr_type, TRUE, default)

\* The onnxscript functions of the model, by name.
Functions ==
    [ f \in {"A", "B", "I", "U", "Opt", "Var", "Req", "Mode", "Dims", "Rest"} |->
        CASE f = "A"    -> << Input("x", "TFloat"), Input("y", "TFloat") >>
          [] f = "U"    -> << Input("x", "TFloat") >>
          [] f = "B"    -> << Input("x", "TFloat"), Input("y", "TFloat"),
                              AttributeWithDefault("alpha", "INT", PyInt("1")) >>
          [] f = "I"    -> << Input("x", "TInt"), Input("y", "TInt") >>
          [] f = "Opt"  -> << Input("x", "TFloat"), OptionalInput("y", "TOptFloat") >>
          [] f = "Var"  -> << VariadicInput("x", "TFloat"),
                              AttributeWithDefault("alpha", "INT", PyInt("1")) >>
          [] f = "Req"  -> << Input("x", "TFloat"), Attribute("alpha", "INT") >>
          [] f = "Mode" -> << Input("x", "TFloat"), Input("y", "TFloat"),
                              Attribute("rounding_mode", "STRING") >>
          [] f = "Rest" -> << Input("x", "TFloat"), VariadicInput("rest", "TFloat"),
                              AttributeWithDefault("alpha", "INT", PyInt("1")) >>
          [] f = "Dims" -> << Input("x", "TFloat"),
                              AttributeWithDefault("alpha", "INTS", PyList(<<PyInt("1")>>)) >> ]

param_schemas(onnxfunction) == Functions[onnxfunction]

RECURSIVE SelectInputs(_)
SelectInputs(params) ==
    IF params = <<>> THEN <<>>
    ELSE IF Head(params).is_input THEN <<Head(params)>> \o SelectInputs(Tail(params))
    ELSE SelectInputs(Tail(params))

op_schema_inputs(onnxfunction) == SelectInputs(param_schemas(onnxfunction))

\* op_schema.attributes: the attribute parameters, by name
op_schema_attributes(onnxfunction) ==
    LET params == param_schemas(onnxfunction)
        idx == { i \in 1..Len(params) : ~params[i].is_input }
    IN  [ n \in { params[i].name : i \in idx } |->
            params[CHOOSE i \in idx : params[i].name = n] ]

(***************************************************************************)
(* _OnnxSchemaChecker                                                      *)
(***************************************************************************)
EmptyMap == [ n \in {} |-> PyNone ]
Put(m, k, v) == [ n \in DOMAIN m \cup {k} |-> IF n = k THEN v ELSE m[n] ]
Pop(m, k) == [ n \in DOMAIN m \ {k} |-> m[n] ]
\* A variant of args[i:] that keeps the whole of args.
DropNothing(s, n) == s
Drop(s, n) == IF n >= Len(s) THEN <<>> ELSE SubSeq(s, n + 1, Len(s))

\* mutant: the extra kwargs picked up without the test for None
pick_up_all_extra_kwargs(onnx_attributes, copy_kwargs) ==
    [ n \in DOMAIN onnx_attributes \cup DOMAIN copy_kwargs |->
        IF n \in DOMAIN onnx_attributes THEN onnx_attributes[n] ELSE copy_kwargs[n] ]

\* A variant whose last loop picks up nothing.
pick_up_no_extra_kwargs(onnx_attributes, copy_kwargs) == onnx_attributes

\* The extra kwargs that the last loop of the separation picks up.
pick_up_extra_kwargs(onnx_attributes, copy_kwargs) ==
    LET extra == { k \in DOMAIN copy_kwargs :
                     k \notin DOMAIN onnx_attributes /\ copy_kwargs[k].k # "none" }
    IN  [ n \in DOMAIN onnx_attributes \cup extra |->
            IF n \in DOMAIN onnx_attributes THEN onnx_attributes[n] ELSE copy_kwargs[n] ]

\* One iteration of the loop over param_schemas (i counts from 0 as enumerate does),
\* followed by the remaining ones.
RECURSIVE separate_loop(_, _, _, _, _, _, _)
separate_loop(onnxfunction, i, args, copy_kwargs, fill_defaults, onnx_inputs, onnx_attributes) ==
    LET params == param_schemas(onnxfunction)
    IN  IF i >= Len(params)
        THEN [inputs |-> onnx_inputs,
              attrs  |-> pick_up_extra_kwargs(onnx_attributes, copy_kwargs)]
        ELSE LET param == params[i + 1]
                 next(a, kw, ins, ats) ==
                     separate_loop(onnxfunction, i + 1, a, kw, fill_defaults, ins, ats)
             IN  IF param.is_variadic_input
                 THEN \* Exhaust all remaining args
                      next(<<>>, copy_kwargs, onnx_inputs \o Drop(args, i), onnx_attributes)
                 ELSE IF i < Len(args)
                 THEN IF param.is_input
                      THEN next(args, copy_kwargs, Append(onnx_inputs, args[i + 1]),
                                onnx_attributes)
                      ELSE next(args, copy_kwargs, onnx_inputs,
                                Put(onnx_attributes, param.name, args[i + 1]))
                 ELSE IF param.name \in DOMAIN copy_kwargs
                 THEN IF param.is_input
                      THEN next(args, Pop(copy_kwargs, param.name),
                                Append(onnx_inputs, copy_kwargs[param.name]), onnx_attributes)
                      ELSE next(args, copy_kwargs, onnx_inputs,
                                Put(onnx_attributes, param.name, copy_kwargs[param.name]))
                 ELSE IF ~param.is_input /\ param.has_default
                 THEN IF fill_defaults
                      THEN next(args, copy_kwargs, onnx_inputs,
                                Put(onnx_attributes, param.name, param.default))
                      ELSE next(args, copy_kwargs, onnx_inputs, onnx_attributes)
                 ELSE IF param.is_input
                 THEN IF fill_defaults
                      THEN next(args, copy_kwargs, Append(onnx_inputs, PyNone), onnx_attributes)
                      ELSE next(args, copy_kwargs, onnx_inputs, onnx_attributes)
                 ELSE next(args, copy_kwargs, onnx_inputs, onnx_attributes)

\* mutant: defaults are never filled in
separate_without_defaults(onnxfunction, args, kwargs, fill_defaults) ==
    separate_loop(onnxfunction, 0, args, kwargs, FALSE, <<>>, EmptyMap)

\* A variant that treats a keyword given as None as a keyword not given.
separate_without_none_kwargs(onnxfunction, args, kwargs, fill_defaults) ==
    separate_loop(onnxfunction, 0, args,
                  [ k \in { k \in DOMAIN kwargs : kwargs[k] # PyNone } |-> kwargs[k] ],
                  fill_defaults, <<>>, EmptyMap)

\* A variant that keeps the positional arguments beyond the declared parameters as inputs.
separate_keeping_surplus(onnxfunction, args, kwargs, fill_defaults) ==
    [ separate_loop(onnxfunction, 0, args, kwargs, fill_defaults, <<>>, EmptyMap)
      EXCEPT !.inputs = @ \o Drop(args, Len(param_schemas(onnxfunction))) ]

separate_input_attributes_from_arguments(onnxfunction, args, kwargs, fill_defaults) ==
    separate_loop(onnxfunction, 0, args, kwargs, fill_defaults, <<>>, EmptyMap)

RECURSIVE match_onnx_attribute_type(_, _, _, _)
match_onnx_attribute_type(onnxfunction, attribute_name, attribute, is_sequence) ==
    IF IsPyConst(attribute)
    THEN from_python_type_to_onnx_attribute_type(attribute.k, is_sequence)
            = op_schema_attributes(onnxfunction)[attribute_name].attr_type
    ELSE IF IsSequence(attribute) /\ Len(attribute.items) > 0
    THEN match_onnx_attribute_type(onnxfunction, attribute_name, attribute.items[1], TRUE)
    ELSE FALSE

\* type(attribute) as _record_matching_score passes it on
PyType(x) == x.k

Count(S) == Cardinality(S)

record_matching_score(onnxfunction, inputs, attributes) ==
    LET schema_inputs == op_schema_inputs(onnxfunction)
        declared == op_schema_attributes(onnxfunction)
        n == IF Len(schema_inputs) < Len(inputs) THEN Len(schema_inputs) ELSE Len(inputs)
        compatible == { i \in 1..n :
                          AllowedTypes[schema_inputs[i].type_str]
                             \cap find_onnx_data_type(inputs[i]) # {} }
        penalized == { a \in DOMAIN declared :
                         from_python_type_to_onnx_attribute_type(PyType(attributes[a]), FALSE)
                            # declared[a].attr_type }
    IN  Count(compatible) - Count(penalized)

\* mutant: a candidate that fails the count/name check gets the score 0
match_separated_always_scored(onnxfunction, function_inputs, function_attributes) ==
    LET schema_inputs == op_schema_inputs(onnxfunction)
        declared == op_schema_attributes(onnxfunction)
        count_name_ok == /\ Len(function_inputs) = Len(schema_inputs)
                         /\ DOMAIN function_attributes = DOMAIN declared
        result(raised, perfect, scored, score) ==
            [raised |-> raised, perfect |-> perfect, scored |-> scored, score |-> score,
             inputs |-> function_inputs, attrs |-> function_attributes]
    IN  IF ~count_name_ok
        THEN result(FALSE, FALSE, TRUE, 0)
        ELSE IF \E i \in 1..Len(function_inputs) :
                    find_onnx_data_type(function_inputs[i]) = Unknown
        THEN result(TRUE, FALSE, FALSE, 0)
        ELSE LET inputs_ok ==
                     \A i \in 1..Len(schema_inputs) :
                        LET allowed_types == AllowedTypes[schema_inputs[i].type_str]
                        IN  ~ ( /\ allowed_types \cap find_onnx_data_type(function_inputs[i]) = {}
                                /\ ~ \E t \in allowed_types : is_optional_onnx_dtype_str(t) )
                 attributes_ok ==
                     \A a \in DOMAIN function_attributes :
                        match_onnx_attribute_type(onnxfunction, a, function_attributes[a], FALSE)
             IN  result(FALSE, inputs_ok /\ attributes_ok, TRUE,
                        record_matching_score(onnxfunction, function_inputs, function_attributes))

\* perfect_match_inputs after the separation.
\* The result of perfect_match_inputs and the match_score it leaves behind:
\*   raised   the call raised RuntimeError (unknown input type)
\*   perfect  the value returned
\*   scored   match_score is not None;  score  match_score
match_separated(onnxfunction, function_inputs, function_attributes) ==
    LET schema_inputs == op_schema_inputs(onnxfunction)
        declared == op_schema_attributes(onnxfunction)
        count_name_ok == /\ Len(function_inputs) = Len(schema_inputs)
                         /\ DOMAIN function_attributes = DOMAIN declared
        result(raised, perfect, scored, score) ==
            [raised |-> raised, perfect |-> perfect, scored |-> scored, score |-> score,
             inputs |-> function_inputs, attrs |-> function_attributes]
    IN  IF ~count_name_ok
        THEN result(FALSE, FALSE, FALSE, 0)
        ELSE IF \E i \in 1..Len(function_inputs) :
                    find_onnx_data_type(function_inputs[i]) = Unknown
        THEN result(TRUE, FALSE, FALSE, 0)
        ELSE LET inputs_ok ==
                     \A i \in 1..Len(schema_inputs) :
                        LET allowed_types == AllowedTypes[schema_inputs[i].type_str]
                        IN  ~ ( /\ allowed_types \cap find_onnx_data_type(function_inputs[i]) = {}
                                /\ ~ \E t \in allowed_types : is_optional_onnx_dtype_str(t) )
                 attributes_ok ==
                     \A a \in DOMAIN function_attributes :
                        match_onnx_attribute_type(onnxfunction, a, function_attributes[a], FALSE)
             IN  result(FALSE, inputs_ok /\ attributes_ok, TRUE,
                        record_matching_score(onnxfunction, function_inputs, function_attributes))

with_separated(onnxfunction, separated) ==
    match_separated(onnxfunction, separated.inputs, separated.attrs)

\* mutant: the value returned is that of the count/name check alone
perfect_match_inputs_by_count_and_name(onnxfunction, args, kwargs) ==
    [ with_separated(onnxfunction,
                     separate_input_attributes_from_arguments(onnxfunction, args, kwargs, TRUE))
      EXCEPT !.perfect =
         with_separated(onnxfunction,
                        separate_input_attributes_from_arguments(onnxfunction, args, kwargs,
                                                                 TRUE)).scored ]

perfect_match_inputs(onnxfunction, args, kwargs) ==
    with_separated(onnxfunction,
                   separate_input_attributes_from_arguments(onnxfunction, args, kwargs, TRUE))

(***************************************************************************)
(* _registration.OpName and _registration.ONNXFunction                     *)
(***************************************************************************)
\* overload=None, the default overload
None == "<None>"

OpName(namespace, op_name, overload) ==
    [namespace |-> namespace, op_name |-> op_name, overload |-> overload]
from_name_parts(namespace, op_name, overload) == OpName(namespace, op_name, overload)
from_op_overload(op_overload) ==
    OpName(op_overload.namespace, op_overload.op_name, op_overload.overload)
from_builtin_function(builtin_function) == OpName("_operator", builtin_function.op_name, None)

ONNXFunction(onnx_function, op_full_name, is_custom, is_complex) ==
    [onnx_function |-> onnx_function, op_full_name |-> op_full_name,
     is_custom |-> is_custom, is_complex |-> is_complex]

(***************************************************************************)
(* OnnxRegistry                                                            *)
(***************************************************************************)
\* list.index: the first position that holds a value equal to x
IndexOf(list, x) == CHOOSE i \in 1..Len(list) : list[i] = x /\ \A j \in 1..(i - 1) : list[j] # x

\* mutant: insert(0, symbolic_function) in place of append
register_in_front(reg, internal_qualified_name, symbolic_function) ==
    IF internal_qualified_name \in DOMAIN reg
    THEN [reg EXCEPT ![internal_qualified_name] = <<symbolic_function>> \o @]
    ELSE [ n \in DOMAIN reg \cup {internal_qualified_name} |->
             IF n = internal_qualified_name THEN <<symbolic_function>> ELSE reg[n] ]

\* self._registry[internal_qualified_name].append(symbolic_function), on a defaultdict(list)
register(reg, internal_qualified_name, symbolic_function) ==
    IF internal_qualified_name \in DOMAIN reg
    THEN [reg EXCEPT ![internal_qualified_name] = Append(@, symbolic_function)]
    ELSE [ n \in DOMAIN reg \cup {internal_qualified_name} |->
             IF n = internal_qualified_name THEN <<symbolic_function>> ELSE reg[n] ]

RECURSIVE register_all(_, _, _, _)
register_all(reg, name, funcs, is_complex) ==
    IF funcs = <<>> THEN reg
    ELSE register_all(register(reg, name, ONNXFunction(Head(funcs), name, FALSE, is_complex)),
                      name, Tail(funcs), is_complex)

\* torchlib_registry is a sequence of entries [name, overloads, complex] in dict order
RECURSIVE initiate_registry_from_torchlib(_, _)
initiate_registry_from_torchlib(reg, torchlib_registry) ==
    IF torchlib_registry = <<>> THEN reg
    ELSE LET entry == Head(torchlib_registry)
             with_overloads == register_all(reg, entry.name, entry.overloads, FALSE)
             with_complex == register_all(with_overloads, entry.name, entry.complex, TRUE)
         IN  initiate_registry_from_torchlib(with_complex, Tail(torchlib_registry))

register_op(reg, function, namespace, op_name, overload, is_complex) ==
    LET internal_name_instance == from_name_parts(namespace, op_name, overload)
    IN  register(reg, internal_name_instance,
                 ONNXFunction(function, internal_name_instance, TRUE, is_complex))

\* Absent is the None that dict.get returns for a missing key
Absent == << ONNXFunction("<absent>", OpName("", "", None), FALSE, FALSE) >>

\* mutant: a missing overload is looked up under the default overload
get_op_functions_or_default(reg, namespace, op_name, overload) ==
    IF from_name_parts(namespace, op_name, overload) \in DOMAIN reg
    THEN reg[from_name_parts(namespace, op_name, overload)]
    ELSE IF from_name_parts(namespace, op_name, None) \in DOMAIN reg
    THEN reg[from_name_parts(namespace, op_name, None)]
    ELSE Absent

get_op_functions(reg, namespace, op_name, overload) ==
    LET internal_name_instance == from_name_parts(namespace, op_name, overload)
    IN  IF internal_name_instance \in DOMAIN reg THEN reg[internal_name_instance] ELSE Absent

is_registered_op(reg, namespace, op_name, overload) ==
    get_op_functions(reg, namespace, op_name, overload) # Absent

\* mutant: self._registry[key], which makes a defaultdict insert an empty list for a
\* missing key
registry_after_getitem(reg, internal_name_instance) ==
    IF internal_name_instance \in DOMAIN reg THEN reg
    ELSE [ n \in DOMAIN reg \cup {internal_name_instance} |->
             IF n = internal_name_instance THEN <<>> ELSE reg[n] ]

\* self._registry after self._registry.get(key): get never calls the default factory
registry_after_get(reg, internal_name_instance) == reg

\* self._registry after get_op_functions (and after is_registered_op, which calls it)
registry_after_get_op_functions(reg, namespace, op_name, overload) ==
    registry_after_get(reg, from_name_parts(namespace, op_name, overload))

(***************************************************************************)
(* OnnxFunctionDispatcher                                                  *)
(***************************************************************************)
Target(kind, namespace, op_name, overload) ==
    [kind |-> kind, namespace |-> namespace, op_name |-> op_name, overload |-> overload]
GetItem == Target("getitem", "_operator", "getitem", None)
OpOverloadPacket(namespace, op_name) == Target("OpOverloadPacket", namespace, op_name, None)
BuiltinFunction(op_name) == Target("BuiltinFunctionType", "_operator", op_name, None)
OpOverload(namespace, op_name, overload) == Target("OpOverload", namespace, op_name, overload)
OtherTarget == Target("other", "", "", None)

\* What dispatch hands back: the onnx_function returned, with the ONNXFunction it was
\* taken from, or the error raised.
NoCandidate == ONNXFunction("", OpName("", "", None), FALSE, FALSE)
Outcome(kind, impl, from, detail) ==
    [kind |-> kind, impl |-> impl, from |-> from, detail |-> detail]
NoOutcome == Outcome("none", "", NoCandidate, "")
Returned(symbolic_function) ==
    Outcome("returned", symbolic_function.onnx_function, symbolic_function, "")
Raised(kind, detail) == Outcome(kind, "", NoCandidate, detail)

\* [ok, name] or [ok = FALSE, detail] where the code raises ValueError
\* A variant that resolves every OpOverloadPacket to its default overload.
get_aten_name_of_any_packet(node) ==
    LET found(name) == [ok |-> TRUE, name |-> name, detail |-> ""]
        unsupported(detail) == [ok |-> FALSE, name |-> OpName("", "", None), detail |-> detail]
        symbolic(node_arg) ==
            \/ node_arg.k \in {"int", "float", "bool"}
            \/ (node_arg.k = "tensor" /\ node_arg.meta \in {"SymBool", "SymInt", "SymFloat"})
    IN  IF node.target.kind = "getitem"
        THEN found(from_name_parts("aten", "getitem", None))
        ELSE IF node.target.kind = "OpOverloadPacket"
        THEN found(from_op_overload(OpOverload(node.target.namespace, node.target.op_name, None)))
        ELSE IF node.target.kind = "BuiltinFunctionType"
        THEN IF \A i \in 1..Len(node.args) : symbolic(node.args[i])
             THEN found(from_builtin_function(node.target))
             ELSE unsupported("Unsupported node arg")
        ELSE IF node.target.kind = "OpOverload"
        THEN found(from_op_overload(node.target))
        ELSE unsupported("Unsupported operator")

\* A variant that resolves a built-in function whatever its arguments are.
get_aten_name_of_any_builtin(node) ==
    LET found(name) == [ok |-> TRUE, name |-> name, detail |-> ""]
        unsupported(detail) == [ok |-> FALSE, name |-> OpName("", "", None), detail |-> detail]
    IN  IF node.target.kind = "getitem"
        THEN found(from_name_parts("aten", "getitem", None))
        ELSE IF node.target.kind = "OpOverloadPacket"
        THEN IF node.target.namespace = "aten" /\ node.target.op_name = "sym_size"
             THEN found(from_op_overload(OpOverload("aten", "sym_size", None)))
             ELSE unsupported("Unsupported OverloadPacket")
        ELSE IF node.target.kind = "BuiltinFunctionType"
        THEN found(from_builtin_function(node.target))
        ELSE IF node.target.kind = "OpOverload"
        THEN found(from_op_overload(node.target))
        ELSE unsupported("Unsupported operator")

get_aten_name(node) ==
    LET found(name) == [ok |-> TRUE, name |-> name, detail |-> ""]
        unsupported(detail) == [ok |-> FALSE, name |-> OpName("", "", None), detail |-> detail]
        symbolic(node_arg) ==
            \/ node_arg.k \in {"int", "float", "bool"}
            \/ (node_arg.k = "tensor" /\ node_arg.meta \in {"SymBool", "SymInt", "SymFloat"})
    IN  IF node.target.kind = "getitem"
        THEN found(from_name_parts("aten", "getitem", None))
        ELSE IF node.target.kind = "OpOverloadPacket"
        THEN IF node.target.namespace = "aten" /\ node.target.op_name = "sym_size"
             THEN found(from_op_overload(OpOverload("aten", "sym_size", None)))
             ELSE unsupported("Unsupported OverloadPacket")
        ELSE IF node.target.kind = "BuiltinFunctionType"
        THEN IF \A i \in 1..Len(node.args) : symbolic(node.args[i])
             THEN found(from_builtin_function(node.target))
             ELSE unsupported("Unsupported node arg")
        ELSE IF node.target.kind = "OpOverload"
        THEN found(from_op_overload(node.target))
        ELSE unsupported("Unsupported operator")

RECURSIVE Filter(_, _)
Filter(list, is_complex) ==
    IF list = <<>> THEN <<>>
    ELSE IF Head(list).is_complex = is_complex
    THEN <<Head(list)>> \o Filter(Tail(list), is_complex)
    ELSE Filter(Tail(list), is_complex)

any_arg_with_complex_dtype(node) ==
    \E i \in 1..Len(node.args) : is_arg_with_complex_dtype(node.args[i])

\* mutant: every function is kept, whatever its is_complex
keep_all_functions(node, default_and_custom_functions) ==
    Filter(default_and_custom_functions, TRUE) \o Filter(default_and_custom_functions, FALSE)

\* the filtered list; <<>> is where the code raises ValueError
filter_or_keep_complex(node, default_and_custom_functions) ==
    Filter(default_and_custom_functions, any_arg_with_complex_dtype(node))

\* One candidate of the loop: the checker's result for it, and the loop left at
\* a perfect match (return) or at an error (raise).
scan_entry(symbolic_function, i, res) == [cand |-> symbolic_function, index |-> i, res |-> res]
scan_step(entry, rest) ==
    IF entry.res.raised \/ entry.res.perfect THEN <<entry>> ELSE <<entry>> \o rest

\* mutant: the loop runs over default_and_custom_functions, not over reversed(...)
RECURSIVE scan_from(_, _, _, _)
scan_from(default_and_custom_functions, i, onnx_args, onnx_kwargs) ==
    IF i > Len(default_and_custom_functions) THEN <<>>
    ELSE scan_step(scan_entry(default_and_custom_functions[i], i,
                              perfect_match_inputs(default_and_custom_functions[i].onnx_function,
                                                   onnx_args, onnx_kwargs)),
                   scan_from(default_and_custom_functions, i + 1, onnx_args, onnx_kwargs))
scan_in_order(default_and_custom_functions, i, onnx_args, onnx_kwargs) ==
    IF i = 0 THEN <<>> ELSE scan_from(default_and_custom_functions, 1, onnx_args, onnx_kwargs)

\* The loop over reversed(default_and_custom_functions): the checker results, in scan
\* order, up to and including the candidate that is a perfect match or that raises.
RECURSIVE scan_in_reverse(_, _, _, _)
scan_in_reverse(default_and_custom_functions, i, onnx_args, onnx_kwargs) ==
    IF i = 0 THEN <<>>
    ELSE scan_step(scan_entry(default_and_custom_functions[i], i,
                              perfect_match_inputs(default_and_custom_functions[i].onnx_function,
                                                   onnx_args, onnx_kwargs)),
                   scan_in_reverse(default_and_custom_functions, i - 1, onnx_args, onnx_kwargs))

\* NOTE 3 of the code: the sort key (score, is_custom, index), compared as Python tuples
KeyLess(a, b) ==
    \/ a[1] < b[1]
    \/ (a[1] = b[1] /\ ~a[2] /\ b[2])
    \/ (a[1] = b[1] /\ a[2] = b[2] /\ a[3] < b[3])

\* mutant: candidates without a score stay in overload_match_ranking
nearest_match_keeps_unscored(default_and_custom_functions, scanned) ==
    LET last == scanned[Len(scanned)]
        overload_match_ranking == { scanned[j].cand : j \in 1..Len(scanned) }
        key(k) == << scanned[CHOOSE j \in 1..Len(scanned) : scanned[j].cand = k].res.score,
                     k.is_custom,
                     IndexOf(default_and_custom_functions, k) >>
        top == CHOOSE k \in overload_match_ranking :
                  \A o \in overload_match_ranking : o = k \/ KeyLess(key(o), key(k))
    IN  IF last.res.raised
        THEN [outcome |-> Raised("RuntimeError", "Unknown input type"), scan |-> scanned]
        ELSE IF last.res.perfect
        THEN [outcome |-> Returned(last.cand), scan |-> scanned]
        ELSE [outcome |-> Returned(top), scan |-> scanned]

\* The end of the loop and, when it found no perfect match, the sort of
\* overload_match_ranking; scanned is what the loop did.
perfect_or_nearest_match(default_and_custom_functions, scanned) ==
    LET last == scanned[Len(scanned)]
        \* overload_match_ranking: a dict keyed by ONNXFunction, None scores dropped
        overload_match_ranking ==
            { scanned[j].cand : j \in { j \in 1..Len(scanned) : scanned[j].res.scored } }
        key(k) == << scanned[CHOOSE j \in 1..Len(scanned) : scanned[j].cand = k].res.score,
                     k.is_custom,
                     IndexOf(default_and_custom_functions, k) >>
        top == CHOOSE k \in overload_match_ranking :
                  \A o \in overload_match_ranking : o = k \/ KeyLess(key(o), key(k))
    IN  IF last.res.raised
        THEN [outcome |-> Raised("RuntimeError", "Unknown input type"), scan |-> scanned]
        ELSE IF last.res.perfect
        THEN [outcome |-> Returned(last.cand), scan |-> scanned]
        ELSE IF overload_match_ranking = {}
        THEN [outcome |-> Raised("NoSymbolicFunction", ""), scan |-> scanned]
        ELSE [outcome |-> Returned(top), scan |-> scanned]

find_the_perfect_or_nearest_match_onnxfunction(default_and_custom_functions, onnx_args, onnx_kwargs) ==
    perfect_or_nearest_match(default_and_custom_functions,
                             scan_in_reverse(default_and_custom_functions,
                                             Len(default_and_custom_functions),
                                             onnx_args, onnx_kwargs))

\* mutant: the warning is logged whenever a function group is found
warning_on_any_group(exact, fallback) ==
    IF exact # Absent \/ fallback # Absent
    THEN << [level |-> "warning",
             msg |-> "The operator overload is not found in onnx registry"] >>
    ELSE <<>>

\* what get_function_overloads sends to the logger
fallback_warning(exact, fallback) ==
    IF exact = Absent /\ fallback # Absent
    THEN << [level |-> "warning",
             msg |-> "The operator overload is not found in onnx registry"] >>
    ELSE <<>>

\* get_function_overloads: [ok, functions, diag], or [ok = FALSE, error] where it raises
Overloads(ok, error, functions, warning) ==
    [ok |-> ok, error |-> error, functions |-> functions, diag |-> warning]

filtered_overloads(node, filtered, warning) ==
    IF filtered = <<>>
    THEN Overloads(FALSE, Raised("NoMatchingVariant",
                                 IF any_arg_with_complex_dtype(node) THEN "COMPLEX" ELSE "REAL"),
                   <<>>, warning)
    ELSE Overloads(TRUE, NoOutcome, filtered, warning)

\* mutant: a missing function group is reported as a missing variant
missing_group_as_missing_variant(node, function_group, warning) ==
    IF function_group = Absent
    THEN Overloads(FALSE, Raised("NoMatchingVariant", "REAL"), <<>>, <<>>)
    ELSE filtered_overloads(node, filter_or_keep_complex(node, function_group), warning)

function_group_overloads(node, function_group, warning) ==
    IF function_group = Absent
    THEN Overloads(FALSE, Raised("UnregisteredOperator", ""), <<>>, <<>>)
    ELSE filtered_overloads(node, filter_or_keep_complex(node, function_group), warning)

\* A variant that also falls back when the exact entry has no function of the call's kind.
fallback_on_empty_partition(node, exact, fallback) ==
    function_group_overloads(
        node,
        IF exact # Absent /\ Filter(exact, any_arg_with_complex_dtype(node)) # <<>>
        THEN exact ELSE fallback,
        <<>>)

exact_or_fallback_overloads(node, exact, fallback) ==
    function_group_overloads(node, IF exact # Absent THEN exact ELSE fallback,
                             fallback_warning(exact, fallback))

named_overloads(reg, node, internal_opname) ==
    IF ~internal_opname.ok
    THEN Overloads(FALSE, Raised("UnsupportedOperatorTarget", internal_opname.detail),
                   <<>>, <<>>)
    ELSE exact_or_fallback_overloads(
            node,
            get_op_functions(reg, internal_opname.name.namespace,
                             internal_opname.name.op_name, internal_opname.name.overload),
            get_op_functions(reg, internal_opname.name.namespace,
                             internal_opname.name.op_name, None))

get_function_overloads(reg, node) == named_overloads(reg, node, get_aten_name(node))

\* the result of the matching, with what was logged on the way
with_diag(matched, warning) ==
    [outcome |-> matched.outcome, diag |-> warning, scan |-> matched.scan]

\* A variant that hands back the first overload when no candidate has a score.
dispatch_overloads_or_first(overloads, onnx_args, onnx_kwargs) ==
    IF ~overloads.ok
    THEN [outcome |-> overloads.error, diag |-> overloads.diag, scan |-> <<>>]
    ELSE IF find_the_perfect_or_nearest_match_onnxfunction(
               overloads.functions, onnx_args, onnx_kwargs).outcome.kind = "NoSymbolicFunction"
    THEN [outcome |-> Returned(overloads.functions[1]), diag |-> overloads.diag, scan |-> <<>>]
    ELSE with_diag(find_the_perfect_or_nearest_match_onnxfunction(overloads.functions,
                                                                  onnx_args, onnx_kwargs),
                   overloads.diag)

dispatch_overloads(overloads, onnx_args, onnx_kwargs) ==
    IF ~overloads.ok
    THEN [outcome |-> overloads.error, diag |-> overloads.diag, scan |-> <<>>]
    ELSE with_diag(find_the_perfect_or_nearest_match_onnxfunction(overloads.functions,
                                                                  onnx_args, onnx_kwargs),
                   overloads.diag)

\* dispatch: [outcome, diag, scan]
dispatch(reg, node, onnx_args, onnx_kwargs) ==
    dispatch_overloads(get_function_overloads(reg, node), onnx_args, onnx_kwargs)

\* self._registry after the lookups of get_function_overloads: the one of the identity
\* and, when that finds nothing, the one of the default overload
registry_after_named_overloads(reg, internal_opname) ==
    IF ~internal_opname.ok THEN reg
    ELSE IF get_op_functions(reg, internal_opname.name.namespace,
                             internal_opname.name.op_name,
                             internal_opname.name.overload) # Absent
    THEN registry_after_get_op_functions(reg, internal_opname.name.namespace,
                                         internal_opname.name.op_name,
                                         internal_opname.name.overload)
    ELSE registry_after_get_op_functions(
            registry_after_get_op_functions(reg, internal_opname.name.namespace,
                                            internal_opname.name.op_name,
                                            internal_opname.name.overload),
            internal_opname.name.namespace, internal_opname.name.op_name, None)

\* the names get_function_overloads passes to get_op_functions: the identity's and, when
\* that finds nothing, the default overload's; none when the target has no identity
named_lookups(reg, internal_opname) ==
    IF ~internal_opname.ok THEN <<>>
    ELSE IF get_op_functions(reg, internal_opname.name.namespace,
                             internal_opname.name.op_name,
                             internal_opname.name.overload) # Absent
    THEN << from_name_parts(internal_opname.name.namespace, internal_opname.name.op_name,
                            internal_opname.name.overload) >>
    ELSE << from_name_parts(internal_opname.name.namespace, internal_opname.name.op_name,
                            internal_opname.name.overload),
            from_name_parts(internal_opname.name.namespace, internal_opname.name.op_name,
                            None) >>

dispatch_lookups(reg, node) == named_lookups(reg, get_aten_name(node))

\* self.onnx_registry._registry after dispatch
registry_after_dispatch(reg, node) == registry_after_named_overloads(reg, get_aten_name(node))

(***************************************************************************)
(* The inputs of the model                                                 *)
(***************************************************************************)
tF == Tensor("torch.float32")
tI == Tensor("torch.int64")
tC == Tensor("torch.complex64")
sI == SymNode("SymInt", "torch.int64")

AddTensor == OpName("aten", "add", "Tensor")
AddDefault == OpName("aten", "add", None)

\* torchlib default registries the registry is constructed from
Catalogs ==
    { << [name |-> AddTensor, overloads |-> <<"A">>, complex |-> <<"A">>],
         [name |-> AddDefault, overloads |-> <<"I", "B">>, complex |-> <<>>] >>,
      << [name |-> AddDefault, overloads |-> <<"B", "I">>, complex |-> <<"I">>],
         [name |-> AddTensor, overloads |-> <<>>, complex |-> <<>>] >> }

\* register_op calls: [function, overload, is_complex] under aten::add
Registration(function, overload, is_complex) ==
    [function |-> function, overload |-> overload, is_complex |-> is_complex]
Registrations ==
    { Registration("A", "Tensor", FALSE), Registration("B", "Tensor", FALSE),
      Registration("U", "Tensor", FALSE), Registration("A", "Tensor", TRUE),
      Registration("A", None, FALSE) }

Kw(name, value) == [ n \in {name} |-> value ]

MatchArgs ==
    { <<tF, tF>>, <<tI, tF>>, <<tF, PyNone>>, <<tF>>, <<tI>>, <<tC, tF>>,
      <<PyList(<<tC, tF>>), tF>>, <<PyList(<<tF, tC>>), tF>>, <<PyTuple(<<tC>>), tF>>,
      <<tF, PyObject>> }
MatchKwargs == { EmptyMap, Kw("alpha", PyFloat("2.0")), Kw("rounding_mode", PyNone) }

Node(target, args) == [target |-> target, args |-> args]
Call(target, args, kwargs) == [target |-> target, args |-> args, kwargs |-> kwargs]
NoCall == Call(OtherTarget, <<>>, EmptyMap)

Calls ==
    { Call(OpOverload("aten", "add", o), a, k) :
        o \in {"Tensor", "Scalar"}, a \in MatchArgs, k \in MatchKwargs }
    \cup { Call(OpOverload("aten", "mul", "Tensor"), <<tF, tF>>, EmptyMap) }
    \cup { Call(t, a, EmptyMap) :
             t \in { GetItem, OpOverloadPacket("aten", "sym_size"),
                     OpOverloadPacket("aten", "add"), BuiltinFunction("add"), OtherTarget },
             a \in { <<sI, PyInt("1")>>, <<tF, PyInt("1")>> } }
    \cup { Call(BuiltinFunction("add"), a, EmptyMap) :
             a \in { <<PyFloat("2.0"), PyBool("True")>>, <<sI, PyStr("floor")>> } }

LookupNames ==
    { OpName("aten", op, o) : op \in {"add", "mul"}, o \in {None, "Tensor", "Scalar"} }

CheckerValues == { tF, tI, PyNone, PyInt("2"), PyList(<<tF>>), PyObject }

RECURSIVE SeqsUpTo(_, _)
SeqsUpTo(S, n) ==
    IF n = 0 THEN { <<>> }
    ELSE LET shorter == SeqsUpTo(S, n - 1)
         IN  shorter \cup { Append(q, x) : q \in { q \in shorter : Len(q) = n - 1 }, x \in S }

CheckerArgs == SeqsUpTo(CheckerValues, MaxArgs)

CheckerKwargs ==
    { EmptyMap,
      Kw("alpha", PyInt("2")), Kw("alpha", PyFloat("2.0")), Kw("alpha", PyNone),
      Kw("alpha", PyList(<<PyInt("2")>>)),
      Kw("y", tF), Kw("y", PyNone),
      Kw("rounding_mode", PyNone), Kw("rounding_mode", PyStr("floor")),
      Put(Kw("alpha", PyInt("2")), "rounding_mode", PyNone),
      Kw("alpha", PyBool("True")), Kw("alpha", PyList(<<>>)),
      Kw("alpha", PyTuple(<<PyFloat("2.0")>>)), Kw("alpha", PyList(<<PyList(<<PyInt("2")>>)>>)),
      Kw("rounding_mode", PyInt("2")), Kw("beta", PyInt("2")) }

(***************************************************************************)
(* Spec: the registry and the dispatcher                                   *)
(***************************************************************************)
EmptyRegistry == [ n \in {} |-> <<>> ]
CheckerOff == [pc |-> "off"]

Lookup(op, name, functions, registered) ==
    [op |-> op, name |-> name, functions |-> functions, registered |-> registered]
NoLookup == Lookup("none", OpName("", "", None), Absent, FALSE)
\* no dispatch in progress in any thread, no checker constructed by one
NoThreads == [ t \in {} |-> NoCall ]
NoCheckers == [ o \in {} |-> NoCall ]
\* _find_onnx_data_type: the call in progress or finished
Typed(pc, torch_input, result) == [pc |-> pc, torch_input |-> torch_input, result |-> result]
NoTyped == Typed("off", PyNone, {})

\* history: the registrations that constructing the registry from the catalog makes
RECURSIVE BuiltinRegistrations(_)
BuiltinRegistrations(torchlib_registry) ==
    IF torchlib_registry = <<>> THEN <<>>
    ELSE LET entry == Head(torchlib_registry)
             one(is_complex) ==
                [ i \in 1..Len(IF is_complex THEN entry.complex ELSE entry.overloads) |->
                    [name |-> entry.name,
                     function |-> IF is_complex THEN entry.complex[i] ELSE entry.overloads[i],
                     is_custom |-> FALSE, is_complex |-> is_complex] ]
         IN  one(FALSE) \o one(TRUE) \o BuiltinRegistrations(Tail(torchlib_registry))

\* OnnxRegistry.__init__
Init ==
    /\ \E torchlib_registry \in Catalogs :
          /\ registry = initiate_registry_from_torchlib(EmptyRegistry, torchlib_registry)
          /\ made = BuiltinRegistrations(torchlib_registry)
    /\ call = NoCall
    /\ outcome = NoOutcome
    /\ diag = <<>>
    /\ scan = <<>>
    /\ looked = NoLookup
    /\ chk = CheckerOff
    /\ threads = NoThreads
    /\ checkers = NoCheckers
    /\ typed = NoTyped
    /\ lookups = <<>>

\* no caller holds a result
Idle == call = NoCall /\ looked = NoLookup

NumCustom == Cardinality({ i \in 1..Len(made) : made[i].is_custom })

\* OnnxRegistry.register_op
RegisterOp ==
    /\ Idle
    /\ NumCustom < MaxCustom
    /\ \E r \in Registrations :
          /\ registry' = register_op(registry, r.function, "aten", "add", r.overload,
                                     r.is_complex)
          /\ made' = Append(made, [name |-> OpName("aten", "add", r.overload),
                                   function |-> r.function,
                                   is_custom |-> TRUE, is_complex |-> r.is_complex])
    /\ UNCHANGED <<call, outcome, diag, scan, looked, chk, threads, checkers, typed, lookups>>

\* the caller of dispatch sees its result
DispatchResult(c, r) ==
    /\ call' = c
    /\ outcome' = r.outcome
    /\ diag' = r.diag
    /\ scan' = r.scan

\* OnnxFunctionDispatcher.dispatch
Dispatch ==
    /\ Idle
    /\ \E c \in Calls :
          /\ DispatchResult(c, dispatch(registry, Node(c.target, c.args), c.args, c.kwargs))
          /\ registry' = registry_after_dispatch(registry, Node(c.target, c.args))
          /\ lookups' = dispatch_lookups(registry, Node(c.target, c.args))
    /\ UNCHANGED <<made, looked, chk, threads, checkers, typed>>

\* OnnxRegistry.get_op_functions
GetOpFunctions ==
    /\ Idle
    /\ \E n \in LookupNames :
          /\ looked' = Lookup("get_op_functions", n,
                              get_op_functions(registry, n.namespace, n.op_name, n.overload),
                              FALSE)
          /\ registry' = registry_after_get_op_functions(registry, n.namespace, n.op_name,
                                                         n.overload)
    /\ UNCHANGED <<made, call, outcome, diag, scan, chk, threads, checkers, typed, lookups>>

\* OnnxRegistry.is_registered_op
IsRegisteredOp ==
    /\ Idle
    /\ \E n \in LookupNames :
          /\ looked' = Lookup("is_registered_op", n, Absent,
                              is_registered_op(registry, n.namespace, n.op_name, n.overload))
          /\ registry' = registry_after_get_op_functions(registry, n.namespace, n.op_name,
                                                         n.overload)
    /\ UNCHANGED <<made, call, outcome, diag, scan, chk, threads, checkers, typed, lookups>>

\* The caller takes the result of its dispatch or lookup.
Return ==
    /\ ~Idle
    /\ call' = NoCall
    /\ outcome' = NoOutcome
    /\ diag' = <<>>
    /\ scan' = <<>>
    /\ looked' = NoLookup
    /\ lookups' = <<>>
    /\ UNCHANGED <<registry, made, chk, threads, checkers, typed>>

Next == RegisterOp \/ Dispatch \/ GetOpFunctions \/ IsRegisteredOp \/ Return

Spec == Init /\ [][Next]_vars

(***************************************************************************)
(* SpecChecker: one _OnnxSchemaChecker applied to one call                 *)
(***************************************************************************)
Checker(pc, onnxfunction, args, kwargs, fill_defaults, inputs, attrs, res) ==
    [pc |-> pc, onnxfunction |-> onnxfunction, args |-> args, kwargs |-> kwargs,
     fill_defaults |-> fill_defaults, inputs |-> inputs, attrs |-> attrs,
     error |-> IF res.raised THEN "RuntimeError" ELSE "",
     perfect |-> res.perfect, scored |-> res.scored, score |-> res.score]
NoResult == [raised |-> FALSE, perfect |-> FALSE, scored |-> FALSE, score |-> 0]

\* _OnnxSchemaChecker.__init__: match_score is None
InitChecker ==
    /\ registry = EmptyRegistry
    /\ made = <<>>
    /\ call = NoCall
    /\ outcome = NoOutcome
    /\ diag = <<>>
    /\ scan = <<>>
    /\ looked = NoLookup
    /\ threads = NoThreads
    /\ checkers = NoCheckers
    /\ typed = NoTyped
    /\ lookups = <<>>
    /\ \E f \in DOMAIN Functions, a \in CheckerArgs, k \in CheckerKwargs :
          chk = Checker("new", f, a, k, TRUE, <<>>, EmptyMap, NoResult)

\* _OnnxSchemaChecker.perfect_match_inputs
PerfectMatchInputs ==
    /\ chk.pc = "new"
    /\ LET res == perfect_match_inputs(chk.onnxfunction, chk.args, chk.kwargs)
       IN  chk' = Checker("matched", chk.onnxfunction, chk.args, chk.kwargs, TRUE,
                          res.inputs, res.attrs, res)
    /\ UNCHANGED <<registry, made, call, outcome, diag, scan, looked, threads, checkers, typed, lookups>>

\* _OnnxSchemaChecker._separate_input_attributes_from_arguments
SeparateInputAttributes ==
    /\ chk.pc = "new"
    /\ \E fill_defaults \in BOOLEAN :
          LET sep == separate_input_attributes_from_arguments(chk.onnxfunction, chk.args,
                                                              chk.kwargs, fill_defaults)
          IN  chk' = Checker("separated", chk.onnxfunction, chk.args, chk.kwargs,
                             fill_defaults, sep.inputs, sep.attrs, NoResult)
    /\ UNCHANGED <<registry, made, call, outcome, diag, scan, looked, threads, checkers, typed, lookups>>

NextChecker == PerfectMatchInputs \/ SeparateInputAttributes

SpecChecker == InitChecker /\ [][NextChecker]_vars

(***************************************************************************)
(* SpecConcurrent: dispatch calls of several threads on one registry that  *)
(* no longer changes.  A step is one statement of dispatch,                *)
(* get_function_overloads counting as one (it only reads the registry).    *)
(***************************************************************************)
Threads == {"t1", "t2"}

\* function_opschema.match_score: None, or the score _record_matching_score stored
MatchScore(scored, score) == [scored |-> scored, score |-> score]
NoScore == MatchScore(FALSE, 0)

NoChecker == [owner |-> "", iteration |-> 0, onnx_function |-> ""]

\* mutant: one checker object per onnx function, shared by every dispatch call
checker_of_function(t, i, onnx_function) ==
    [owner |-> "", iteration |-> 0, onnx_function |-> onnx_function]

\* function_opschema = _OnnxSchemaChecker(symbolic_function.onnx_function): a new object
\* in every iteration of the loop of every call
new_checker(t, i, onnx_function) ==
    [owner |-> t, iteration |-> i, onnx_function |-> onnx_function]

\* The local variables of one dispatch call: default_and_custom_functions, the position
\* of symbolic_function in it, function_opschema, overload_match_ranking (as the entries
\* recorded so far), and what the call returned or raised.
Thread(pc, c, functions, i, function_opschema, scanned, result, warning, overlapped) ==
    [pc |-> pc, call |-> c, functions |-> functions, i |-> i,
     function_opschema |-> function_opschema, scanned |-> scanned,
     outcome |-> result, diag |-> warning, overlapped |-> overlapped]

\* another thread is inside its dispatch call
OtherRunning(t) == \E u \in Threads \ {t} : threads[u].pc \notin {"dispatch", "done"}

Step(t, next) ==
    threads' = [threads EXCEPT ![t] = [next EXCEPT !.overlapped = @ \/ OtherRunning(t)]]

Finished(th, result) ==
    Thread("done", th.call, th.functions, th.i, th.function_opschema, th.scanned,
           result, th.diag, th.overlapped)

\* the registrations made before the dispatch calls start
RECURSIVE register_ops(_, _)
register_ops(reg, registrations) ==
    IF registrations = <<>> THEN reg
    ELSE register_ops(register_op(reg, Head(registrations).function, "aten", "add",
                                  Head(registrations).overload,
                                  Head(registrations).is_complex),
                      Tail(registrations))

CustomRegistrations(registrations) ==
    [ i \in 1..Len(registrations) |->
        [name |-> OpName("aten", "add", registrations[i].overload),
         function |-> registrations[i].function,
         is_custom |-> TRUE, is_complex |-> registrations[i].is_complex] ]

QuiescedRegistrations ==
    { <<>>,
      << Registration("B", "Tensor", FALSE), Registration("I", "Tensor", FALSE) >>,
      << Registration("U", "Tensor", FALSE), Registration("A", None, FALSE) >> }

ConcurrentCalls ==
    { Call(OpOverload("aten", "add", "Tensor"), <<tF>>, EmptyMap),
      Call(OpOverload("aten", "add", "Tensor"), <<tI>>, EmptyMap),
      Call(OpOverload("aten", "add", "Scalar"), <<tF, tF>>, EmptyMap),
      Call(OpOverload("aten", "add", "Tensor"), <<tI, tF>>, Kw("alpha", PyFloat("2.0"))),
      Call(OpOverload("aten", "mul", "Tensor"), <<tF, tF>>, EmptyMap) }

InitConcurrent ==
    /\ \E torchlib_registry \in Catalogs, registrations \in QuiescedRegistrations :
          /\ registry = register_ops(initiate_registry_from_torchlib(EmptyRegistry,
                                                                     torchlib_registry),
                                     registrations)
          /\ made = BuiltinRegistrations(torchlib_registry)
                       \o CustomRegistrations(registrations)
    /\ call = NoCall
    /\ outcome = NoOutcome
    /\ diag = <<>>
    /\ scan = <<>>
    /\ looked = NoLookup
    /\ chk = CheckerOff
    /\ \E calls \in [Threads -> ConcurrentCalls] :
          threads = [ t \in Threads |->
                        Thread("dispatch", calls[t], <<>>, 0, NoChecker, <<>>, NoOutcome,
                               <<>>, FALSE) ]
    /\ checkers = NoCheckers
    /\ typed = NoTyped
    /\ lookups = <<>>

\* default_and_custom_functions = self.get_function_overloads(node)
EnterLoop(t, overloads) ==
    IF ~overloads.ok
    THEN Step(t, Thread("done", threads[t].call, <<>>, 0, NoChecker, <<>>,
                        overloads.error, overloads.diag, threads[t].overlapped))
    ELSE Step(t, Thread("construct", threads[t].call, overloads.functions,
                        Len(overloads.functions), NoChecker, <<>>, NoOutcome,
                        overloads.diag, threads[t].overlapped))

GetFunctionOverloads(t) ==
    /\ threads[t].pc = "dispatch"
    /\ EnterLoop(t, get_function_overloads(registry, Node(threads[t].call.target,
                                                          threads[t].call.args)))
    /\ UNCHANGED <<registry, made, call, outcome, diag, scan, looked, chk, checkers, typed, lookups>>

\* function_opschema = _OnnxSchemaChecker(symbolic_function.onnx_function)
Constructed(t, object) ==
    /\ checkers' = Put(checkers, object, NoScore)
    /\ Step(t, [threads[t] EXCEPT !.pc = "match", !.function_opschema = object])

Construct(t) ==
    /\ threads[t].pc = "construct"
    /\ Constructed(t, new_checker(t, threads[t].i,
                                  threads[t].functions[threads[t].i].onnx_function))
    /\ UNCHANGED <<registry, made, call, outcome, diag, scan, looked, chk, typed, lookups>>

\* if function_opschema.perfect_match_inputs(onnx_args, onnx_kwargs): return ...
\* perfect_match_inputs stores the score in the checker object before it returns.
MatchedWith(t, res) ==
    IF res.raised
    THEN /\ Step(t, Finished(threads[t], Raised("RuntimeError", "Unknown input type")))
         /\ UNCHANGED checkers
    ELSE /\ checkers' = IF res.scored
                        THEN [checkers EXCEPT ![threads[t].function_opschema] =
                                                  MatchScore(TRUE, res.score)]
                        ELSE checkers
         /\ IF res.perfect
            THEN Step(t, Finished(threads[t],
                                  Returned(threads[t].functions[threads[t].i])))
            ELSE Step(t, [threads[t] EXCEPT !.pc = "record"])

Match(t) ==
    /\ threads[t].pc = "match"
    /\ MatchedWith(t, perfect_match_inputs(threads[t].function_opschema.onnx_function,
                                          threads[t].call.args, threads[t].call.kwargs))
    /\ UNCHANGED <<registry, made, call, outcome, diag, scan, looked, chk, typed, lookups>>

\* overload_match_ranking[symbolic_function] = function_opschema.match_score
Recorded(t, match_score) ==
    Step(t, [threads[t] EXCEPT
               !.scanned = Append(@, scan_entry(threads[t].functions[threads[t].i],
                                                threads[t].i,
                                                [raised |-> FALSE, perfect |-> FALSE,
                                                 scored |-> match_score.scored,
                                                 score |-> match_score.score,
                                                 inputs |-> <<>>, attrs |-> EmptyMap])),
               !.i = @ - 1,
               !.pc = IF threads[t].i = 1 THEN "sort" ELSE "construct"])

Record(t) ==
    /\ threads[t].pc = "record"
    /\ Recorded(t, checkers[threads[t].function_opschema])
    /\ UNCHANGED <<registry, made, call, outcome, diag, scan, looked, chk, checkers, typed, lookups>>

\* the statements after the loop: drop the None scores, raise or sort and return
Sorted(t, matched) == Step(t, Finished(threads[t], matched.outcome))

Sort(t) ==
    /\ threads[t].pc = "sort"
    /\ Sorted(t, perfect_or_nearest_match(threads[t].functions, threads[t].scanned))
    /\ UNCHANGED <<registry, made, call, outcome, diag, scan, looked, chk, checkers, typed, lookups>>

NextConcurrent ==
    \E t \in Threads :
       GetFunctionOverloads(t) \/ Construct(t) \/ Match(t) \/ Record(t) \/ Sort(t)

SpecConcurrent == InitConcurrent /\ [][NextConcurrent]_vars

(***************************************************************************)
(* SpecTypes: _find_onnx_data_type applied to one value                    *)
(***************************************************************************)
\* elements of the sequences: tensors, a tensor without dtype, constants, None, a nested
\* list, and a value of no known type
TypedItems ==
    { tF, tI, tC, NoDtypeTensor, PyNone, PyInt("2"), PyFloat("2.0"), PyBool("True"),
      PyStr("floor"), PyList(<<tF>>), PyObject }

TypedInputs ==
    TypedItems
       \cup { PyList(items) : items \in SeqsUpTo(TypedItems, MaxItems) }
       \cup { PyTuple(items) : items \in SeqsUpTo(TypedItems, MaxItems) }

InitTypes ==
    /\ registry = EmptyRegistry
    /\ made = <<>>
    /\ call = NoCall
    /\ outcome = NoOutcome
    /\ diag = <<>>
    /\ scan = <<>>
    /\ looked = NoLookup
    /\ chk = CheckerOff
    /\ threads = NoThreads
    /\ checkers = NoCheckers
    /\ lookups = <<>>
    /\ \E torch_input \in TypedInputs : typed = Typed("call", torch_input, {})

\* _find_onnx_data_type(torch_input): the set returned, or Unknown for the RuntimeError
FindOnnxDataType ==
    /\ typed.pc = "call"
    /\ typed' = Typed("done", typed.torch_input, find_onnx_data_type(typed.torch_input))
    /\ UNCHANGED <<registry, made, call, outcome, diag, scan, looked, chk, threads, checkers,
                   lookups>>

NextTypes == FindOnnxDataType

SpecTypes == InitTypes /\ [][NextTypes]_vars

(***************************************************************************)
(* Vocabulary of the properties: the dispatch the state records            *)
(***************************************************************************)
Dispatched == call # NoCall
CallNode == Node(call.target, call.args)
Identity == get_aten_name(CallNode)
ListAt(overload) ==
    IF OpName(Identity.name.namespace, Identity.name.op_name, overload) \in DOMAIN registry
    THEN registry[OpName(Identity.name.namespace, Identity.name.op_name, overload)]
    ELSE Absent
ExactList == ListAt(Identity.name.overload)
DefaultList == ListAt(None)
\* the candidate list the dispatch works on
UsedList == IF ExactList # Absent THEN ExactList ELSE DefaultList
Looked == Dispatched /\ Identity.ok /\ UsedList # Absent

\* a complex-valued tensor, or a list or sequence whose first element is complex
RECURSIVE IsComplexArg(_)
IsComplexArg(arg) ==
    \/ (arg.k = "tensor" /\ arg.d \in ComplexDtypes)
    \/ (arg.k \in {"list", "tuple"} /\ Len(arg.items) > 0 /\ IsComplexArg(arg.items[1]))
HasComplexArg == \E i \in 1..Len(call.args) : IsComplexArg(call.args[i])

\* the positions of the used list that the partition retains
Retained == { i \in 1..Len(UsedList) : UsedList[i].is_complex = any_arg_with_complex_dtype(CallNode) }
TestAt(i) == perfect_match_inputs(UsedList[i].onnx_function, call.args, call.kwargs)
PerfectAt == { i \in Retained : TestAt(i).perfect }
RaisingAt == { i \in Retained : TestAt(i).raised }
EligibleAt == { i \in Retained : TestAt(i).scored }
Latest(S) == CHOOSE i \in S : \A j \in S : j <= i

\* position i is maximal for (score, is_custom, registration index) among the eligible ones
MaximalAt(i) ==
    /\ i \in EligibleAt
    /\ \A j \in EligibleAt \ {i} :
          \/ TestAt(j).score < TestAt(i).score
          \/ /\ TestAt(j).score = TestAt(i).score
             /\ ~UsedList[j].is_custom /\ UsedList[i].is_custom
          \/ /\ TestAt(j).score = TestAt(i).score
             /\ UsedList[j].is_custom = UsedList[i].is_custom
             /\ j < i

C2_ReturnsMaximalEligible ==
    (Looked /\ PerfectAt = {} /\ RaisingAt = {} /\ EligibleAt # {}) =>
        \E i \in EligibleAt : MaximalAt(i) /\ outcome = Returned(UsedList[i])

(***************************************************************************)
(* C3  Complex partition property                                          *)
(***************************************************************************)
\* C3 as stated: when a positional argument is complex-valued (a list or sequence counts
\* if its first element does), every implementation returned is of an is_complex
\* candidate, and without such a candidate dispatch fails with NoMatchingVariant.
C3_ComplexCallGetsComplexImplementation ==
    (Looked /\ HasComplexArg) =>
        /\ outcome.kind = "returned" => outcome.from.is_complex
        /\ (\A i \in 1..Len(UsedList) : ~UsedList[i].is_complex)
              => outcome.kind = "NoMatchingVariant"

(***************************************************************************)
(* C4  Default-fallback property                                           *)
(***************************************************************************)
\* the registry with the default-overload list also registered under the exact identity
WithExactEntry ==
    [ n \in DOMAIN registry \cup {Identity.name} |->
        IF n = Identity.name THEN DefaultList ELSE registry[n] ]
AsExactHit == dispatch(WithExactEntry, CallNode, call.args, call.kwargs)

ScenarioAB ==
    /\ Looked
    /\ call.args = <<tF, tF>> /\ call.kwargs = EmptyMap
    /\ Cardinality(Retained) = 2
    /\ { UsedList[i].onnx_function : i \in Retained } = {"A", "B"}

\* C5 as stated: the call returns A in either registration order; B is not a perfect
\* match, only schema-eligible.
C5_ScenarioReturnsA ==
    ScenarioAB =>
        /\ outcome.kind = "returned" /\ outcome.impl = "A"
        /\ \A i \in Retained :
              UsedList[i].onnx_function = "B" => (~TestAt(i).perfect /\ TestAt(i).scored)

\* C5 amended: A and B are both perfect matches (the default of alpha is filled in, so
\* the attribute names of B equal its declared ones), and the call returns whichever of
\* the two was registered later, after testing that one only.
C5_ScenarioReturnsLaterOfAB ==
    ScenarioAB =>
        /\ PerfectAt = Retained
        /\ outcome = Returned(UsedList[Latest(Retained)])
        /\ Len(scan) = 1 /\ scan[1].cand = UsedList[Latest(Retained)]
        /\ scan[1].res.attrs =
              (IF outcome.impl = "B" THEN Kw("alpha", PyInt("1")) ELSE EmptyMap)

\* B registered after A, and B returned
C5_Witness ==
    /\ ScenarioAB
    /\ outcome.kind = "returned" /\ outcome.impl = "B"
    /\ \E i \in Retained : \E j \in Retained :
          i < j /\ UsedList[i].onnx_function = "A" /\ UsedList[j].onnx_function = "B"

(***************************************************************************)
(* Vocabulary of the properties: the checker the state records             *)
(***************************************************************************)
Separated == chk.pc \in {"matched", "separated"}
Matched == chk.pc = "matched"
Filled == chk.pc = "matched" \/ (chk.pc = "separated" /\ chk.fill_defaults)
Params == param_schemas(chk.onnxfunction)
ParamNames == { Params[p].name : p \in 1..Len(Params) }
VariadicBefore(p) == \E q \in 1..(p - 1) : Params[q].is_variadic_input
\* parameter p receives neither a positional nor a keyword argument
Unsupplied(p) ==
    /\ ~Params[p].is_variadic_input
    /\ (p > Len(chk.args) \/ VariadicBefore(p))
    /\ Params[p].name \notin DOMAIN chk.kwargs
\* the position among the inputs of the input parameter p
InputIndex(p) == Cardinality({ q \in 1..p : Params[q].is_input })
TypeOk(param, value) ==
    \/ AllowedTypes[param.type_str] \cap find_onnx_data_type(value) # {}
    \/ \E t \in AllowedTypes[param.type_str] : t \in OPTIONAL_ONNX_DTYPE_STR

(***************************************************************************)
(* C6  Stray null keyword                                                  *)
(***************************************************************************)
StrayNull == { k \in DOMAIN chk.kwargs : chk.kwargs[k] = PyNone /\ k \notin ParamNames }
WithoutStrayNull == [ k \in DOMAIN chk.kwargs \ StrayNull |-> chk.kwargs[k] ]

\* C6: a None-valued keyword that names no parameter of the candidate is left out of the
\* attribute mapping, and the perfect-match test gives what it gives without that keyword.
C6_StrayNullKeywordDropped ==
    /\ Separated => \A k \in StrayNull : k \notin DOMAIN chk.attrs
    /\ Matched =>
          LET without == perfect_match_inputs(chk.onnxfunction, chk.args, WithoutStrayNull)
          IN  /\ chk.perfect = without.perfect
              /\ chk.scored = without.scored
              /\ chk.score = without.score
              /\ chk.attrs = without.attrs

\* a perfect match for a call that carries a stray null keyword
C6_Witness ==
    /\ Matched /\ StrayNull # {} /\ chk.perfect
    /\ chk.attrs = EmptyMap

(***************************************************************************)
(* C7  Optional-input property                                             *)
(***************************************************************************)
OmittedOptionalInputs ==
    { p \in 1..Len(Params) : Params[p].is_input /\ ~Params[p].required /\ Unsupplied(p) }

UnsatisfiedRequired ==
    { p \in 1..Len(Params) :
        Params[p].required /\ ~Params[p].has_default /\ Unsupplied(p) }

\* C8 as stated: a required parameter satisfied by no positional argument, keyword or
\* default makes the argument separation raise MissingRequiredParameter.
C8_MissingRequiredParameterRaises ==
    (Separated /\ UnsatisfiedRequired # {}) => chk.error = "MissingRequiredParameter"

(***************************************************************************)
(* C9  Registry order invariant                                            *)
(***************************************************************************)
IsPrefix(a, b) == Len(a) <= Len(b) /\ SubSeq(b, 1, Len(a)) = a

RECURSIVE MadeUnder(_, _)
MadeUnder(history, name) ==
    IF history = <<>> THEN <<>>
    ELSE LET h == Head(history)
         IN  (IF h.name = name
              THEN << ONNXFunction(h.function, name, h.is_custom, h.is_complex) >>
              ELSE <<>>) \o MadeUnder(Tail(history), name)

C9_Order ==
    \A name \in DOMAIN registry :
       /\ registry[name] = MadeUnder(made, name)
       /\ \A i \in 1..Len(registry[name]) : \A j \in 1..Len(registry[name]) :
             (i < j /\ registry[name][i].is_custom) => registry[name][j].is_custom

C9_AppendOnly ==
    /\ \A name \in DOMAIN registry :
          name \in DOMAIN registry' /\ IsPrefix(registry[name], registry'[name])
    /\ registry' # registry =>
          \E name \in DOMAIN registry' :
             /\ Len(registry'[name]) = (IF name \in DOMAIN registry
                                        THEN Len(registry[name]) ELSE 0) + 1
             /\ \A other \in DOMAIN registry' \ {name} :
                   other \in DOMAIN registry /\ registry'[other] = registry[other]

\* C9: every list is in registration order with the built-ins before the custom entries,
\* and a step only appends one entry to one list.
C9_RegistryOrder == []C9_Order /\ [][C9_AppendOnly]_vars

\* a list of a built-in followed by two custom entries, beside another list
C9_Witness ==
    \E name \in DOMAIN registry :
       /\ Len(registry[name]) >= 3
       /\ ~registry[name][1].is_custom
       /\ registry[name][Len(registry[name]) - 1].is_custom
       /\ registry[name][Len(registry[name]) - 1] # registry[name][Len(registry[name])]
       /\ DOMAIN registry # {name}

(***************************************************************************)
(* C10  lookup is exact                                                    *)
(***************************************************************************)
RegisteredUnder(name) == \E i \in 1..Len(made) : made[i].name = name

\* C10: get_op_functions returns a list exactly for a name some registration was made
\* under, and then the registrations made under that name; is_registered_op is true
\* exactly for those names.
C10_LookupIsExact ==
    /\ looked.op = "get_op_functions" =>
          /\ (looked.functions # Absent) = RegisteredUnder(looked.name)
          /\ RegisteredUnder(looked.name) => looked.functions = MadeUnder(made, looked.name)
    /\ looked.op = "is_registered_op" =>
          /\ looked.registered = RegisteredUnder(looked.name)
          /\ looked.registered =
                (get_op_functions(registry, looked.name.namespace, looked.name.op_name,
                                  looked.name.overload) # Absent)

\* absent for an overload nothing was registered under, while the default overload and
\* another named overload of the same operator are registered
C10_Witness ==
    /\ looked.op = "get_op_functions"
    /\ looked.functions = Absent
    /\ looked.name.overload = "Scalar"
    /\ RegisteredUnder(OpName(looked.name.namespace, looked.name.op_name, None))
    /\ RegisteredUnder(OpName(looked.name.namespace, looked.name.op_name, "Tensor"))

(***************************************************************************)
(* C11  UnregisteredOperator                                               *)
(***************************************************************************)
\* C11: a dispatch whose identity resolves fails with UnregisteredOperator exactly when
\* the registry has an entry neither for the identity nor for its default overload; then
\* nothing is logged, no candidate is tested and no implementation is returned.
C11_UnregisteredOperator ==
    (Dispatched /\ Identity.ok) =>
        /\ (outcome.kind = "UnregisteredOperator") =
              ( /\ Identity.name \notin DOMAIN registry
                /\ OpName(Identity.name.namespace, Identity.name.op_name, None)
                      \notin DOMAIN registry )
        /\ outcome.kind = "UnregisteredOperator" =>
              /\ diag = <<>>
              /\ scan = <<>>
              /\ outcome.impl = "" /\ outcome.from = NoCandidate

\* aten::mul.Tensor dispatched on a registry that holds other operators only
C11_Witness ==
    /\ Dispatched /\ Identity.ok
    /\ outcome.kind = "UnregisteredOperator"
    /\ Identity.name.op_name = "mul"
    /\ DOMAIN registry # {}

(***************************************************************************)
(* C12  NoMatchingVariant                                                  *)
(***************************************************************************)
\* C12: after a successful lookup only the candidates whose is_complex equals "a complex
\* argument is detected" are tested; when there is none, dispatch fails with
\* NoMatchingVariant naming the wanted variant, and no candidate is tested or scored.
C12_NoMatchingVariant ==
    Looked =>
        /\ \A j \in 1..Len(scan) :
              /\ scan[j].cand.is_complex = any_arg_with_complex_dtype(CallNode)
              /\ scan[j].index \in 1..Cardinality(Retained)
        /\ (outcome.kind = "NoMatchingVariant") = (Retained = {})
        /\ outcome.kind = "NoMatchingVariant" =>
              /\ outcome.detail = (IF any_arg_with_complex_dtype(CallNode)
                                   THEN "COMPLEX" ELSE "REAL")
              /\ scan = <<>>
              /\ outcome.impl = ""
        /\ (Retained # {}) => Len(scan) >= 1

\* a complex call on a list of real candidates only, and a real call on complex ones only
C12_Witness ==
    /\ Looked
    /\ outcome.kind = "NoMatchingVariant"
    /\ outcome.detail = "REAL"
    /\ \A i \in 1..Len(UsedList) : UsedList[i].is_complex
    /\ Len(UsedList) >= 1

(***************************************************************************)
(* C13  NoSymbolicFunction                                                 *)
(***************************************************************************)
\* the retained candidates that pass the count/name check (those the test scores, and
\* those whose test raises after the check)
SchemaEligibleAt == EligibleAt \cup RaisingAt

\* C13: with retained candidates of which none passes the count/name check, dispatch
\* fails with NoSymbolicFunction; and an implementation that dispatch returns is always
\* that of a retained candidate with a score.
C13_NoSymbolicFunction ==
    Looked =>
        /\ (Retained # {} /\ SchemaEligibleAt = {}) =>
              (outcome.kind = "NoSymbolicFunction" /\ outcome.impl = "")
        /\ outcome.kind = "NoSymbolicFunction" => (Retained # {} /\ EligibleAt = {})
        /\ outcome.kind = "returned" =>
              \E i \in EligibleAt : UsedList[i] = outcome.from

\* two retained candidates, both tested, neither with a score
C13_Witness ==
    /\ Looked
    /\ outcome.kind = "NoSymbolicFunction"
    /\ Cardinality(Retained) >= 2
    /\ Len(scan) = Cardinality(Retained)
    /\ \A j \in 1..Len(scan) : ~scan[j].res.scored

(***************************************************************************)
(* C14  No de-duplication                                                  *)
(***************************************************************************)
CustomMadeUnder(name) == { i \in 1..Len(made) : made[i].name = name /\ made[i].is_custom }
CustomEntries(name) == { j \in 1..Len(registry[name]) : registry[name][j].is_custom }

\* position j of the used list loses to position r on (score, is_custom, position)
Outranks(r, j) ==
    \/ TestAt(j).score < TestAt(r).score
    \/ /\ TestAt(j).score = TestAt(r).score
       /\ ~UsedList[j].is_custom /\ UsedList[r].is_custom
    \/ /\ TestAt(j).score = TestAt(r).score
       /\ UsedList[j].is_custom = UsedList[r].is_custom
       /\ j < r

\* every call of register_op left one more entry in its list
C14_EveryRegistrationKept ==
    \A name \in DOMAIN registry :
       Cardinality(CustomEntries(name)) = Cardinality(CustomMadeUnder(name))

\* the scan tests the retained entries one by one from the last, skipping none, and
\* tests them all when it meets no perfect match and no error
C14_EveryEntryScanned ==
    (Looked /\ Retained # {}) =>
        /\ \A j \in 1..Len(scan) : scan[j].index = Cardinality(Retained) - j + 1
        /\ (PerfectAt = {} /\ RaisingAt = {}) => Len(scan) = Cardinality(Retained)

\* C14 as stated: n registrations leave n entries, each of them is tested by the scan,
\* and each eligible one competes in the ranking at its own position: the candidate
\* returned is at a position that no eligible entry outranks.
C14_NoDeduplication ==
    /\ C14_EveryRegistrationKept
    /\ C14_EveryEntryScanned
    /\ (Looked /\ PerfectAt = {} /\ RaisingAt = {} /\ EligibleAt # {}) =>
          \E r \in EligibleAt :
             /\ UsedList[r] = outcome.from
             /\ \A j \in EligibleAt \ {r} : Outranks(r, j)

(***************************************************************************)
(* C15  The registry is read-only during dispatch                          *)
(***************************************************************************)
\* every key of the registry was registered under
C15_KeysRegistered == \A name \in DOMAIN registry : RegisteredUnder(name)

\* a step that makes no registration (a dispatch, a lookup, the return of either) adds
\* no key and changes no list
C15_Frame == (made' = made) => (registry' = registry)

Alone(t) == dispatch(registry, Node(threads[t].call.target, threads[t].call.args),
                     threads[t].call.args, threads[t].call.kwargs)

\* C16: on a registry that no longer changes, under every interleaving of the statements
\* of concurrent dispatch calls, each call returns the implementation or raises the error
\* that it gives when run alone, and logs what it logs alone.
C16_ConcurrentDispatchAsAlone ==
    \A t \in DOMAIN threads :
       threads[t].pc = "done" =>
          /\ threads[t].outcome = Alone(t).outcome
          /\ threads[t].diag = Alone(t).diag

\* two calls that overlapped, went through the ranking of the same candidates and
\* returned different implementations
C16_Witness ==
    /\ DOMAIN threads = Threads
    /\ \A t \in Threads : threads[t].pc = "done" /\ threads[t].overlapped
    /\ \A t \in Threads : threads[t].outcome.kind = "returned" /\ Len(threads[t].scanned) >= 2
    /\ threads["t1"].functions = threads["t2"].functions
    /\ threads["t1"].outcome.impl # threads["t2"].outcome.impl

(***************************************************************************)
(* C17  Schema eligibility                                                 *)
(***************************************************************************)
\* entry j of the scan is of a candidate whose separated inputs or attribute names
\* differ in number or in name from the declared ones
FailsCountOrName(j) ==
    \/ Len(scan[j].res.inputs) # Len(op_schema_inputs(scan[j].cand.onnx_function))
    \/ DOMAIN scan[j].res.attrs # DOMAIN op_schema_attributes(scan[j].cand.onnx_function)

\* C17: a candidate that fails the count/name check has no score, is not a perfect match
\* and is not the candidate dispatch returns, whatever the scores of the others are.
C17_IneligibleNeverReturned ==
    \A j \in 1..Len(scan) :
       FailsCountOrName(j) =>
          /\ ~scan[j].res.scored
          /\ ~scan[j].res.perfect
          /\ ~scan[j].res.raised
          /\ outcome.kind = "returned" => outcome.from # scan[j].cand

\* a candidate with a negative score was returned although a candidate that fails the
\* count/name check was scanned with it
C17_Witness ==
    /\ Dispatched
    /\ outcome.kind = "returned"
    /\ \E j \in 1..Len(scan) : FailsCountOrName(j)
    /\ \A j \in 1..Len(scan) : scan[j].res.scored => scan[j].res.score < 0

(***************************************************************************)
(* C18  Scoring                                                            *)
(***************************************************************************)
\* the declared inputs whose compatible types meet the allowed types of the constraint
CompatibleInputs ==
    { q \in 1..Len(op_schema_inputs(chk.onnxfunction)) :
        AllowedTypes[op_schema_inputs(chk.onnxfunction)[q].type_str]
           \cap find_onnx_data_type(chk.inputs[q]) # {} }
\* the declared attributes that the attribute test of the perfect match rejects
RejectedAttributes ==
    { a \in DOMAIN op_schema_attributes(chk.onnxfunction) :
        ~match_onnx_attribute_type(chk.onnxfunction, a, chk.attrs[a], FALSE) }

\* C18 as stated: the score of a schema-eligible candidate is the number of compatible
\* inputs minus the number of attributes that the attribute test of the perfect match
\* rejects (a sequence judged by its first element).
C18_ScoreIsInputsMinusRejectedAttributes ==
    (Matched /\ chk.scored) =>
        chk.score = Cardinality(CompatibleInputs) - Cardinality(RejectedAttributes)

(***************************************************************************)
(* C19  An input type mismatch keeps eligibility                           *)
(***************************************************************************)
CountAndNameOk ==
    /\ Len(chk.inputs) = Len(op_schema_inputs(chk.onnxfunction))
    /\ DOMAIN chk.attrs = DOMAIN op_schema_attributes(chk.onnxfunction)
\* every separated input has a representation the compatible types are defined for
InputsKnown == \A q \in 1..Len(chk.inputs) : find_onnx_data_type(chk.inputs[q]) # Unknown
\* the declared inputs with an empty intersection and no optional(...) in the allowed set
MismatchedInputs ==
    { q \in 1..Len(op_schema_inputs(chk.onnxfunction)) :
        ~TypeOk(op_schema_inputs(chk.onnxfunction)[q], chk.inputs[q]) }
AttributeKindsOk ==
    \A a \in DOMAIN chk.attrs :
       match_onnx_attribute_type(chk.onnxfunction, a, chk.attrs[a], FALSE)

IsWildcard(value) ==
    \/ value = PyNone
    \/ value = NoDtypeTensor
    \/ (IsSequence(value) /\ value.items = <<>>)

\* C20 as stated: None, a value without dtype and an empty sequence map to the empty set
\* of compatible types without raising, and an input holding one of them does not fail
\* the type check: the candidate is a perfect match exactly when its other inputs pass
\* the type check and its attributes the kind check.
C20_WildcardAcceptsAnything ==
    (Matched /\ CountAndNameOk /\ InputsKnown) =>
        /\ \A q \in 1..Len(chk.inputs) :
              IsWildcard(chk.inputs[q]) => find_onnx_data_type(chk.inputs[q]) = {}
        /\ chk.perfect =
              ( /\ \A q \in 1..Len(op_schema_inputs(chk.onnxfunction)) :
                      \/ IsWildcard(chk.inputs[q])
                      \/ TypeOk(op_schema_inputs(chk.onnxfunction)[q], chk.inputs[q])
                /\ AttributeKindsOk )

(***************************************************************************)
(* Vocabulary of the properties: the value _find_onnx_data_type was given  *)
(***************************************************************************)
TypedDone == typed.pc = "done"
TypedItemsGiven == typed.torch_input.items
NonEmptySequenceTyped == TypedDone /\ IsSequence(typed.torch_input) /\ Len(TypedItemsGiven) > 0
NonNoneItems == { i \in 1..Len(TypedItemsGiven) : TypedItemsGiven[i].k # "none" }
\* the element the sequence is typed by: its first element that is not None
ElementTypedBy == TypedItemsGiven[CHOOSE i \in NonNoneItems : \A j \in NonNoneItems : i <= j]
\* the element's compatible set
ElementSet == IF NonNoneItems = {} THEN {} ELSE find_onnx_data_type(ElementTypedBy)
SomeItemTensorLike == \E i \in 1..Len(TypedItemsGiven) : IsTensorLike(TypedItemsGiven[i])

\* C21: for a non-empty sequence whose element (the first one that is not None) has a
\* compatible set, _find_onnx_data_type gives seq(t) for every t of the element's set when
\* at least one element of the sequence is tensor-like, and the element's set itself, with
\* no seq() wrapping, when none is.
C21_SequenceTypeMapping ==
    (NonEmptySequenceTyped /\ ElementSet # Unknown)
        => typed.result = IF SomeItemTensorLike
                          THEN { SeqOf(t) : t \in ElementSet }
                          ELSE ElementSet

\* a sequence typed by a constant, wrapped because a later element is a tensor
C21_Witness ==
    /\ NonEmptySequenceTyped
    /\ NonNoneItems # {}
    /\ IsPyConst(ElementTypedBy)
    /\ SomeItemTensorLike
    /\ typed.result = { SeqOf(t) : t \in ElementSet }
    /\ typed.result # {}

(***************************************************************************)
(* C22  Attribute kind check                                               *)
(***************************************************************************)
\* the kind a value of a Python type maps to, as the claim tabulates it
KindOfType(v, in_sequence) ==
    CASE v.k \in {"int", "bool"} -> IF in_sequence THEN "INTS" ELSE "INT"
      [] v.k = "float"           -> IF in_sequence THEN "FLOATS" ELSE "FLOAT"
      [] v.k = "str"             -> IF in_sequence THEN "STRINGS" ELSE "STRING"
      [] OTHER                   -> "mismatch"
\* a non-empty list or tuple by its first element's type; an empty sequence, None and any
\* other value map to no kind
KindOfValue(v) ==
    IF IsSequence(v) /\ Len(v.items) > 0 THEN KindOfType(v.items[1], TRUE)
    ELSE KindOfType(v, FALSE)
KindMismatches ==
    { a \in DOMAIN chk.attrs :
        KindOfValue(chk.attrs[a]) # op_schema_attributes(chk.onnxfunction)[a].attr_type }

\* C22 as stated: a candidate that passed the count/name check is a perfect match only if
\* every attribute value maps to the declared kind (scalars by their type, a non-empty list
\* or tuple by its first element's type; an empty sequence, None and anything else map to
\* no kind), and with a mismatch it is still given a score.
C22_AttributeKindByFirstElement ==
    (Matched /\ CountAndNameOk /\ InputsKnown) =>
        /\ chk.scored
        /\ chk.perfect => KindMismatches = {}

\* what the code does for every value but a sequence whose first element is a sequence
C22_FlatAttributeKinds ==
    (/\ Matched /\ CountAndNameOk /\ InputsKnown
     /\ \A a \in DOMAIN chk.attrs :
           ~(/\ IsSequence(chk.attrs[a]) /\ Len(chk.attrs[a].items) > 0
             /\ IsSequence(chk.attrs[a].items[1]))) =>
        /\ chk.scored
        /\ chk.perfect = (MismatchedInputs = {} /\ KindMismatches = {})

(***************************************************************************)
(* C23  Grouped-overload targets                                           *)
(***************************************************************************)
TargetKind == call.target.kind
IsSymSizePacket ==
    TargetKind = "OpOverloadPacket" /\ call.target.namespace = "aten"
       /\ call.target.op_name = "sym_size"
\* the dispatch stopped at the target: the error, nothing looked up, nothing scanned
StoppedAtTarget(detail) ==
    /\ outcome = Raised("UnsupportedOperatorTarget", detail)
    /\ lookups = <<>>
    /\ scan = <<>>
    /\ diag = <<>>

\* C23: an OpOverloadPacket target is resolved only when it is aten.sym_size, and then to
\* the default overload aten::sym_size, the first name the registry is asked for; any other
\* OpOverloadPacket raises "Unsupported OverloadPacket", and a target that is none of
\* getitem, OpOverloadPacket, built-in function and OpOverload raises "Unsupported
\* operator"; in both cases the registry is not asked for anything.
C23_GroupedOverloadTargets ==
    Dispatched =>
       /\ IsSymSizePacket =>
             /\ lookups # <<>>
             /\ lookups[1] = OpName("aten", "sym_size", None)
             /\ outcome.kind # "UnsupportedOperatorTarget"
       /\ (TargetKind = "OpOverloadPacket" /\ ~IsSymSizePacket) =>
             StoppedAtTarget("Unsupported OverloadPacket")
       /\ TargetKind \notin {"getitem", "OpOverloadPacket", "BuiltinFunctionType", "OpOverload"} =>
             StoppedAtTarget("Unsupported operator")

\* the grouped target aten.add is refused although aten::add is registered
C23_Witness ==
    /\ Dispatched
    /\ TargetKind = "OpOverloadPacket"
    /\ call.target.op_name = "add"
    /\ OpName("aten", "add", None) \in DOMAIN registry
    /\ StoppedAtTarget("Unsupported OverloadPacket")

(***************************************************************************)
(* C24  Built-in function targets                                          *)
(***************************************************************************)
\* a literal number, or a node whose value is a symbolic int, float or bool
IsNumberOrSymbolic(arg) ==
    \/ arg.k \in {"int", "float", "bool"}
    \/ (arg.k = "tensor" /\ arg.meta \in {"SymInt", "SymFloat", "SymBool"})
\* the target was given an identity: the first name the registry is asked for
ResolvedTo(name) ==
    /\ lookups # <<>>
    /\ lookups[1] = name
    /\ outcome.kind # "UnsupportedOperatorTarget"

\* C24: a built-in function target is given the identity _operator::<name> exactly when
\* every positional argument is a literal number or a node with a symbolic int, float or
\* bool value; with any other argument the dispatch raises "Unsupported node arg" before
\* it looks anything up.  operator.getitem is aten::getitem whatever its arguments are.
C24_BuiltinFunctionTargets ==
    Dispatched =>
       /\ TargetKind = "BuiltinFunctionType" =>
             IF \A i \in 1..Len(call.args) : IsNumberOrSymbolic(call.args[i])
             THEN ResolvedTo(OpName("_operator", call.target.op_name, None))
             ELSE StoppedAtTarget("Unsupported node arg")
       /\ TargetKind = "getitem" => ResolvedTo(OpName("aten", "getitem", None))

\* operator.add on a symbolic int and a string is refused
C24_Witness ==
    /\ Dispatched
    /\ TargetKind = "BuiltinFunctionType"
    /\ \E i \in 1..Len(call.args) : call.args[i].k = "str"
    /\ \E i \in 1..Len(call.args) : IsNumberOrSymbolic(call.args[i])
    /\ StoppedAtTarget("Unsupported node arg")

(***************************************************************************)
(* C25  Declared attribute passed as None                                  *)
(***************************************************************************)
\* parameter p takes no positional argument
NotPositional(p) == ~Params[p].is_variadic_input /\ (p > Len(chk.args) \/ VariadicBefore(p))
\* the declared attributes the call names by keyword with the value None
NullDeclaredAttributes ==
    { p \in 1..Len(Params) :
        /\ ~Params[p].is_input
        /\ NotPositional(p)
        /\ Params[p].name \in DOMAIN chk.kwargs
        /\ chk.kwargs[Params[p].name] = PyNone }
DeclaredAttributeNames == DOMAIN op_schema_attributes(chk.onnxfunction)

UndeclaredValued == { k \in DOMAIN chk.kwargs : chk.kwargs[k] # PyNone /\ k \notin ParamNames }

\* C26: a keyword with a value other than None that names no parameter of the candidate is
\* added to the attribute mapping, the attribute names then differ from the declared ones,
\* and the candidate is neither a perfect match nor given a score.
C26_UndeclaredKeywordIsNoMatch ==
    \A k \in UndeclaredValued :
       /\ Separated =>
             /\ k \in DOMAIN chk.attrs
             /\ chk.attrs[k] = chk.kwargs[k]
             /\ DOMAIN chk.attrs # DeclaredAttributeNames
       /\ Matched =>
             /\ ~chk.perfect
             /\ ~chk.scored
             /\ chk.error = ""

\* A(x, y) called with two float tensors and alpha=2: no match, although the inputs fit
C26_Witness ==
    /\ Matched
    /\ UndeclaredValued # {}
    /\ DeclaredAttributeNames = {}
    /\ Len(chk.inputs) = Len(op_schema_inputs(chk.onnxfunction))
    /\ InputsKnown
    /\ MismatchedInputs = {}
    /\ ~chk.perfect
    /\ ~chk.scored

(***************************************************************************)
(* C27  Variadic input                                                     *)
(***************************************************************************)
VariadicParams == { p \in 1..Len(Params) : Params[p].is_variadic_input }
\* the positional arguments from the declaration position of p on
ConsumedBy(p) == IF p > Len(chk.args) THEN <<>> ELSE SubSeq(chk.args, p, Len(chk.args))
\* the input parameters other than the variadic one that an input is produced for
ProducesInput(q, positional) ==
    /\ Params[q].is_input
    /\ ~Params[q].is_variadic_input
    /\ \/ (positional /\ q <= Len(chk.args))
       \/ Params[q].name \in DOMAIN chk.kwargs
       \/ Filled
InputsBefore(p) == Cardinality({ q \in 1..(p - 1) : ProducesInput(q, TRUE) })
InputsAfter(p) == { q \in (p + 1)..Len(Params) : ProducesInput(q, FALSE) }
\* the position among the inputs of the input of parameter q declared after the variadic p
IndexAfter(p, q) ==
    InputsBefore(p) + Len(ConsumedBy(p)) + Cardinality({ r \in InputsAfter(p) : r <= q })

\* C27: a variadic input parameter declared at position p takes all the positional
\* arguments from position p on, possibly none, and as many inputs are produced for it;
\* the parameters declared after it take no positional argument: an input is the keyword's
\* value or the None filled in, an attribute the keyword's value or its default.
C27_VariadicConsumesTheRest ==
    \A p \in VariadicParams :
       Separated =>
          /\ Len(chk.inputs) = InputsBefore(p) + Len(ConsumedBy(p)) + Cardinality(InputsAfter(p))
          /\ \A n \in 1..Len(ConsumedBy(p)) :
                chk.inputs[InputsBefore(p) + n] = ConsumedBy(p)[n]
          /\ \A q \in InputsAfter(p) :
                chk.inputs[IndexAfter(p, q)] =
                   IF Params[q].name \in DOMAIN chk.kwargs THEN chk.kwargs[Params[q].name]
                   ELSE PyNone
          /\ \A q \in (p + 1)..Len(Params) :
                ~Params[q].is_input =>
                   IF Params[q].name \in DOMAIN chk.kwargs
                   THEN /\ Params[q].name \in DOMAIN chk.attrs
                        /\ chk.attrs[Params[q].name] = chk.kwargs[Params[q].name]
                   ELSE IF Params[q].has_default /\ Filled
                   THEN /\ Params[q].name \in DOMAIN chk.attrs
                        /\ chk.attrs[Params[q].name] = Params[q].default
                   ELSE Params[q].name \notin DOMAIN chk.attrs

\* Rest(x, *rest, alpha: int = 1) called with (float tensor, 2): rest takes the 2, alpha
\* its default
C27_Witness ==
    /\ Separated /\ Filled
    /\ \E p \in VariadicParams :
          /\ p = 2
          /\ Len(chk.args) = 2
          /\ chk.inputs = chk.args
          /\ chk.args[2] = PyInt("2")
    /\ chk.kwargs = EmptyMap
    /\ chk.attrs = Kw("alpha", PyInt("1"))

(***************************************************************************)
(* C28  Surplus positional arguments                                       *)
(***************************************************************************)
\* more positional arguments than the candidate, which has no variadic parameter, declares
SurplusArgs == VariadicParams = {} /\ Len(chk.args) > Len(Params)
DeclaredArgs == SubSeq(chk.args, 1, Len(Params))
ExtraKeywords ==
    { k \in DOMAIN chk.kwargs :
        chk.kwargs[k] # PyNone /\ k \notin DeclaredAttributeNames }

DetectedComplex == any_arg_with_complex_dtype(CallNode)
ExactName == OpName(Identity.name.namespace, Identity.name.op_name, Identity.name.overload)
\* the positions of the default-overload list that are a perfect match for the call
PerfectInDefaultList ==
    { i \in 1..Len(DefaultList) :
        /\ DefaultList[i].is_complex = DetectedComplex
        /\ perfect_match_inputs(DefaultList[i].onnx_function, call.args, call.kwargs).perfect }

\* C29: when the registry holds an entry under the exact identity, dispatch asks the
\* registry for that name only, logs no fallback warning and tests candidates of that entry
\* only; when the entry holds no function of the call's kind (complex or real) dispatch
\* raises NoMatchingVariant, and when none of the functions of that kind passes the
\* count/name check it raises NoSymbolicFunction, whatever the default-overload list holds.
C29_NoFallbackWithExactEntry ==
    (Dispatched /\ Identity.ok /\ ExactList # Absent) =>
       /\ lookups = << ExactName >>
       /\ diag = <<>>
       /\ \A j \in 1..Len(scan) : \E i \in 1..Len(ExactList) : scan[j].cand = ExactList[i]
       /\ { i \in 1..Len(ExactList) : ExactList[i].is_complex = DetectedComplex } = {}
             => outcome.kind = "NoMatchingVariant"
       /\ ( /\ { i \in 1..Len(ExactList) : ExactList[i].is_complex = DetectedComplex } # {}
            /\ \A i \in 1..Len(ExactList) :
                  ExactList[i].is_complex = DetectedComplex =>
                     LET res == perfect_match_inputs(ExactList[i].onnx_function, call.args,
                                                     call.kwargs)
                     IN  ~res.scored /\ ~res.raised )
             => outcome.kind = "NoSymbolicFunction"

\* the exact entry has no function of the call's kind, the default overload a perfect match
C29_Witness ==
    /\ Dispatched /\ Identity.ok
    /\ ExactList # Absent
    /\ Identity.name.overload # None
    /\ DefaultList # Absent
    /\ PerfectInDefaultList # {}
    /\ outcome.kind = "NoMatchingVariant"

(***************************************************************************)
(* C30  Result membership                                                  *)
(***************************************************************************)
ErrorKinds ==
    { "UnsupportedOperatorTarget", "UnregisteredOperator", "NoMatchingVariant",
      "NoSymbolicFunction", "RuntimeError" }
\* the separation of the call's arguments for a function passes the count/name check
PassesCountAndName(onnxfunction) ==
    LET separated == separate_input_attributes_from_arguments(onnxfunction, call.args,
                                                              call.kwargs, TRUE)
    IN  /\ Len(separated.inputs) = Len(op_schema_inputs(onnxfunction))
        /\ DOMAIN separated.attrs = DOMAIN op_schema_attributes(onnxfunction)

\* C30: a function that dispatch returns is the onnx_function of an entry the registry
\* holds under the identity of the target, or under the default overload of the same
\* namespace and name when the registry has nothing under that identity; the entry's
\* is_complex is what the complex detection gave for the call and the function passes the
\* count/name check for the call; otherwise dispatch raises one error and returns nothing.
C30_ResultMembership ==
    Dispatched =>
       IF outcome.kind = "returned"
       THEN /\ Identity.ok
            /\ UsedList # Absent
            /\ \E i \in 1..Len(UsedList) :
                  /\ UsedList[i] = outcome.from
                  /\ UsedList[i].onnx_function = outcome.impl
                  /\ UsedList[i].is_complex = DetectedComplex
            /\ PassesCountAndName(outcome.impl)
       ELSE /\ outcome.kind \in ErrorKinds
            /\ outcome.impl = ""
            /\ outcome.from = NoCandidate

\* a nearest match returned from the default-overload list, the exact identity being absent
C30_Witness ==
    /\ Dispatched /\ Identity.ok
    /\ outcome.kind = "returned"
    /\ ExactList = Absent
    /\ Identity.name.overload # None
    /\ \E i \in 1..Len(DefaultList) : DefaultList[i] = outcome.from
    /\ ~perfect_match_inputs(outcome.impl, call.args, call.kwargs).perfect

====
